---- MODULE Spec2Model ----
(***************************************************************************)
(* A model of aws-lambda-go-middleware: the Chain engine (NewChain, Then,  *)
(* HandlerFunc, Use) and the middleware units built on it                  *)
(* (AllowContentType, RequestID, ExtendedRequestID, StructuredLogger,      *)
(* Validate).  One invocation of a composed handler is a call stack of     *)
(* frames; every middleware body is one action for the part before it      *)
(* calls next and one for the part after next has returned.                *)
(***************************************************************************)
EXTENDS Integers, Sequences, FiniteSets, TLC

VARIABLES
    arrays,      \* the heap of backing arrays of []MiddlewareFunc slices
    chains,      \* the Chain values the caller holds, each a slice header
    declared,    \* history: per held Chain, the middlewares as declared
    parent,      \* history: per held Chain, the Chain it was derived from
    handler,     \* the composed HandlerFunc: its layers, outermost first
    composedOf,  \* history: index of the Chain the handler was composed of
    pc,          \* "build" | "ready" | "running" | "done"
    stack,       \* the call stack of the running invocation
    ret,         \* the (response, error) pair of the last return
    trace,       \* history: the events of the running invocation
    ctxs,        \* the heap of context.Context value nodes
    inbound      \* the request and context the caller invoked with

vars == <<arrays, chains, declared, parent, handler, composedOf, pc, stack,
          ret, trace, ctxs, inbound>>

\* what the wiring built; an invocation leaves it alone
built == <<arrays, chains, declared, parent, handler, composedOf>>

----------------------------------------------------------------------------
(* Bounds of the model.                                                    *)

\* longest middleware list handed to NewChain
MaxNewChainLen == 2
\* number of Chain values built in one behaviour
MaxChains == 4

\* the longest time a handler takes, in ticks of the clock
MaxDuration == 1

\* the longest chain of provided middlewares composed
MaxMwChainLen == 3

\* how often one Chain is composed with a terminal handler and invoked
MaxCompositions == 2

----------------------------------------------------------------------------
(* Small helpers.                                                          *)

\* a nil error, a nil context value
Nil == "nil"

\* a nil HandlerFunc
NilHandler == <<>>

\* a nil MiddlewareFunc, the zero value of a made slice's elements
NilMiddleware == [kind |-> "nil", tag |-> ""]

Range(s) == {s[i] : i \in 1..Len(s)}

RECURSIVE Reverse(_)
Reverse(s) == IF s = <<>> THEN <<>> ELSE Append(Reverse(Tail(s)), Head(s))

SeqsUpTo(S, n) == UNION {[1..k -> S] : k \in 0..n}

----------------------------------------------------------------------------
(* Requests, responses, contexts.                                          *)

\* events.APIGatewayProxyRequest{}: the zero request
EmptyRequest ==
    [headers |-> <<>>, body |-> <<>>, isBase64Encoded |-> FALSE,
     requestID |-> "", extendedRequestID |-> ""]

\* http.StatusOK
StatusOK == 200

\* events.APIGatewayProxyResponse{}: the zero response
EmptyResponse == [statusCode |-> 0, headers |-> <<>>, body |-> <<>>]

\* context.Background(): the root context, with no bindings
Background == 0

----------------------------------------------------------------------------
(* The instrumented middlewares and handlers of the chain tests.          *)

Tags == {"m1", "m2"}

\* mw(tag): records tag_pre, calls next, records tag_post
TagMiddleware(tag) == [kind |-> "tag", tag |-> tag]

TagMiddlewares == {TagMiddleware(t) : t \in Tags}

\* the handler value a middleware closure wraps: a list of layers, the
\* terminal handler last
FinalHandler == <<[kind |-> "final", tag |-> "h"]>>

\* the default handler HandlerFunc substitutes for a nil final handler
DefaultHandler == <<[kind |-> "default", tag |-> "default"]>>

----------------------------------------------------------------------------
(* The Chain engine.                                                       *)

\* a []MiddlewareFunc slice header over a backing array
Slice(arr, len) == [arr |-> arr, len |-> len]

\* c.middlewares[i], 0-based as in the source
At(arrs, c, i) == arrs[c.arr][i + 1]

\* the sequence a Chain holds, read through the heap
Middlewares(arrs, c) == [i \in 1..c.len |-> At(arrs, c, i - 1)]

\* NewChain: make a fresh array of len(middlewares), copy, wrap
NewChain(arrs, middlewares) ==
    LET newMiddlewares == [i \in 1..Len(middlewares) |-> middlewares[i]]
    IN  [arrays |-> Append(arrs, newMiddlewares),
         chain  |-> Slice(Len(arrs) + 1, Len(middlewares))]

\* a buggy NewChain: the Chain keeps the slice it was given
NewChainKeepsSlice(arrs, s) == [arrays |-> arrs, chain |-> s]

\* NewChain(ms...) for a slice ms of the caller: middlewares is ms itself,
\* and NewChain copies its elements into a fresh array
NewChainSpread(arrs, s) == NewChain(arrs, Middlewares(arrs, s))

\* a buggy Then: append(c.middlewares, mw), which writes into c's own
\* backing array whenever it has spare capacity
ThenAppendInPlace(arrs, c, mw) ==
    LET cap == Len(arrs[c.arr])
    IN  IF c.len < cap
        THEN [arrays |-> [arrs EXCEPT ![c.arr][c.len + 1] = mw],
              chain  |-> Slice(c.arr, c.len + 1)]
        ELSE LET newcap == IF cap = 0 THEN 1 ELSE 2 * cap
                 grown == [i \in 1..newcap |->
                             IF i <= c.len THEN arrs[c.arr][i]
                             ELSE IF i = c.len + 1 THEN mw ELSE NilMiddleware]
             IN  [arrays |-> Append(arrs, grown),
                  chain  |-> Slice(Len(arrs) + 1, c.len + 1)]

\* Then: make a fresh array of len+1, copy c's middlewares, set the last
Then(arrs, c, mw) ==
    LET made == [i \in 1..(c.len + 1) |-> NilMiddleware]
        copied == [i \in 1..(c.len + 1) |->
                     IF i <= c.len THEN At(arrs, c, i - 1) ELSE made[i]]
        newMiddlewares == [copied EXCEPT ![c.len + 1] = mw]
    IN  [arrays |-> Append(arrs, newMiddlewares),
         chain  |-> Slice(Len(arrs) + 1, c.len + 1)]

\* m(next): the closure a middleware returns, holding next
Wrap(m, next) == <<m>> \o next

\* a buggy HandlerFunc loop: wraps from the first middleware to the last
RECURSIVE WrapForward(_, _, _, _)
WrapForward(arrs, c, i, final) ==
    IF i >= c.len THEN final
    ELSE WrapForward(arrs, c, i + 1, Wrap(At(arrs, c, i), final))

\* the loop of HandlerFunc: for i := len-1; i >= 0; i-- { final = m[i](final) }
RECURSIVE WrapLoop(_, _, _, _)
WrapLoop(arrs, c, i, final) ==
    IF i < 0 THEN final
    ELSE WrapLoop(arrs, c, i - 1, Wrap(At(arrs, c, i), final))

HandlerFuncReversed(arrs, c, final) ==
    WrapForward(arrs, c, 0, IF final = NilHandler THEN DefaultHandler ELSE final)

\* a buggy HandlerFunc: for a nil final handler the default handler is
\* returned as it is, without the middlewares around it
HandlerFuncDefaultUnwrapped(arrs, c, final) ==
    IF final = NilHandler THEN DefaultHandler
    ELSE WrapLoop(arrs, c, c.len - 1, final)

\* Chain.HandlerFunc
HandlerFunc(arrs, c, final) ==
    WrapLoop(arrs, c, c.len - 1, IF final = NilHandler THEN DefaultHandler ELSE final)

\* a buggy Use: the terminal handler is wrapped by the first middleware
\* first, so that the last one given is outermost
UseWrapsInOrderGiven(arrs, h, middlewares) ==
    LET made == NewChain(arrs, middlewares)
    IN  [arrays |-> made.arrays, chain |-> made.chain,
         handler |-> HandlerFuncReversed(made.arrays, made.chain, h)]

\* Use(h, middlewares...): NewChain(middlewares...).HandlerFunc(h); the
\* Chain it makes on the way is kept in the result
Use(arrs, h, middlewares) ==
    LET made == NewChain(arrs, middlewares)
    IN  [arrays |-> made.arrays, chain |-> made.chain,
         handler |-> HandlerFunc(made.arrays, made.chain, h)]

----------------------------------------------------------------------------
(* Text.  A Go string is a sequence of one-character strings, so that      *)
(* lower-casing, trimming and parsing are computed, not assumed.           *)

UpperLetters == <<"A", "B", "C", "D", "E", "F", "G", "H", "I", "J", "K", "L", "M", "N", "O", "P", "Q", "R", "S", "T", "U", "V", "W", "X", "Y", "Z">>

LowerLetters == <<"a", "b", "c", "d", "e", "f", "g", "h", "i", "j", "k", "l", "m", "n", "o", "p", "q", "r", "s", "t", "u", "v", "w", "x", "y", "z">>

\* the index of the first c in s, 0 when there is none
IndexOf(c, s) ==
    IF \E i \in 1..Len(s) : s[i] = c
    THEN CHOOSE i \in 1..Len(s) : s[i] = c /\ \A j \in 1..(i - 1) : s[j] # c
    ELSE 0

ToLowerChar(c) ==
    LET i == IndexOf(c, UpperLetters) IN IF i = 0 THEN c ELSE LowerLetters[i]

ToUpperChar(c) ==
    LET i == IndexOf(c, LowerLetters) IN IF i = 0 THEN c ELSE UpperLetters[i]

\* strings.ToLower
ToLower(s) == [i \in 1..Len(s) |-> ToLowerChar(s[i])]

\* unicode.IsSpace, over the characters of the model
IsSpace(c) == c \in {" ", "\t", "\n", "\r"}

\* the suffix of s from 1-based position i
From(s, i) == SubSeq(s, i, Len(s))

\* strings.TrimLeftFunc(s, unicode.IsSpace)
TrimLeftSpace(s) ==
    IF \E i \in 1..Len(s) : ~IsSpace(s[i])
    THEN From(s, CHOOSE i \in 1..Len(s) :
                   ~IsSpace(s[i]) /\ \A j \in 1..(i - 1) : IsSpace(s[j]))
    ELSE <<>>

\* strings.TrimSpace
TrimSpace(s) ==
    LET l == TrimLeftSpace(s)
    IN  IF l = <<>> THEN <<>>
        ELSE SubSeq(l, 1, CHOOSE i \in 1..Len(l) :
                            ~IsSpace(l[i]) /\ \A j \in (i + 1)..Len(l) : IsSpace(l[j]))

\* strings.HasPrefix(s, c) for a one-character prefix
HasPrefixChar(s, c) == s # <<>> /\ s[1] = c

\* mime: the tspecials of RFC 1521 and RFC 2045
TSpecials == {"(", ")", "<", ">", "@", ",", ";", ":", "\\", "\"", "/", "[",
              "]", "?", "="}

\* mime.isTokenChar
IsTokenChar(c) == ~IsSpace(c) /\ c \notin TSpecials

\* mime.consumeToken: the longest prefix of token characters and the rest
consumeToken(v) ==
    LET notPos == IF \E i \in 1..Len(v) : ~IsTokenChar(v[i])
                  THEN CHOOSE i \in 1..Len(v) :
                         ~IsTokenChar(v[i]) /\ \A j \in 1..(i - 1) : IsTokenChar(v[j])
                  ELSE 0
    IN  IF notPos = 0 THEN [token |-> v, rest |-> <<>>]
        ELSE IF notPos = 1 THEN [token |-> <<>>, rest |-> v]
        ELSE [token |-> SubSeq(v, 1, notPos - 1), rest |-> From(v, notPos)]

\* mime.checkMediaTypeDisposition: a token, or token "/" token
checkMediaTypeDisposition(s) ==
    LET t == consumeToken(s)
        sub == consumeToken(Tail(t.rest))
    IN  IF t.token = <<>> THEN "mime: no media type"
        ELSE IF t.rest = <<>> THEN Nil
        ELSE IF ~HasPrefixChar(t.rest, "/")
             THEN "mime: expected slash after first token"
        ELSE IF sub.token = <<>> THEN "mime: expected token after slash"
        ELSE IF sub.rest # <<>>
             THEN "mime: unexpected content after media subtype"
        ELSE Nil

\* mime.consumeMediaParam: "; name = value" off the front of v, with an
\* empty param when v does not start with one (quoted values are outside the
\* characters of the model)
consumeMediaParam(v) ==
    LET none == [param |-> <<>>, value |-> <<>>, rest |-> v]
        r1 == TrimLeftSpace(v)
        r2 == TrimLeftSpace(Tail(r1))
        p  == consumeToken(r2)
        r3 == TrimLeftSpace(p.rest)
        r4 == TrimLeftSpace(Tail(r3))
        val == consumeToken(r4)
    IN  IF ~HasPrefixChar(r1, ";") THEN none
        ELSE IF p.token = <<>> THEN none
        ELSE IF ~HasPrefixChar(r3, "=") THEN none
        ELSE IF val.token = <<>> /\ val.rest = r4 THEN none
        ELSE [param |-> ToLower(p.token), value |-> val.token, rest |-> val.rest]

\* the parameter loop of mime.ParseMediaType: the error it ends with
RECURSIVE parseMediaParams(_, _)
parseMediaParams(v, params) ==
    LET w == TrimLeftSpace(v)
        c == consumeMediaParam(w)
    IN  IF w = <<>> THEN Nil
        ELSE IF c.param = <<>>
             THEN IF TrimSpace(c.rest) = <<";">> THEN Nil
                  ELSE "mime: invalid media parameter"
        ELSE IF \E q \in params : q[1] = c.param /\ q[2] # c.value
             THEN "mime: duplicate parameter name"
        ELSE parseMediaParams(c.rest, params \cup {<<c.param, c.value>>})

\* strings.Cut(v, ";"): the part of v before the first semicolon
BeforeSemicolon(v) ==
    LET i == IndexOf(";", v) IN IF i = 0 THEN v ELSE SubSeq(v, 1, i - 1)

\* mime.ParseMediaType: the media type and the error
ParseMediaType(v) ==
    LET base == BeforeSemicolon(v)
        mediatype == TrimSpace(ToLower(base))
        err == checkMediaTypeDisposition(mediatype)
        perr == parseMediaParams(From(v, Len(base) + 1), {})
    IN  IF err # Nil THEN [mediatype |-> <<>>, err |-> err]
        ELSE IF perr = "mime: invalid media parameter"
             THEN [mediatype |-> mediatype, err |-> perr]
        ELSE IF perr # Nil THEN [mediatype |-> <<>>, err |-> perr]
        ELSE [mediatype |-> mediatype, err |-> Nil]

\* http.CanonicalHeaderKey over letters, digits and hyphens: the first letter
\* and every letter after a hyphen in upper case, the others in lower case
CanonicalHeaderKey(s) ==
    [i \in 1..Len(s) |->
       IF i = 1 \/ s[i - 1] = "-" THEN ToUpperChar(s[i]) ELSE ToLowerChar(s[i])]

\* Go's map index expression m[key]: the zero value for a missing key
MapGet(m, key) == IF key \in DOMAIN m THEN m[key] ELSE <<>>

----------------------------------------------------------------------------
(* AllowContentType (package contenttype).                                 *)

\* http.StatusUnsupportedMediaType
StatusUnsupportedMediaType == 415

\* contenttype.defaultErrorBody
defaultErrorBody ==
    <<"U", "n", "s", "u", "p", "p", "o", "r", "t", "e", "d", " ", "M", "e", "d", "i", "a", " ", "T", "y", "p", "e">>

\* contenttype.defaultErrorContentType
defaultErrorContentType ==
    <<"t", "e", "x", "t", "/", "p", "l", "a", "i", "n", ";", " ", "c", "h", "a", "r", "s", "e", "t", "=", "u", "t", "f", "-", "8">>

\* the header name the middleware looks up
ContentTypeName == <<"C", "o", "n", "t", "e", "n", "t", "-", "T", "y", "p", "e">>

\* contenttype.WithResponse(contentType, body)
WithResponse(contentType, body) ==
    [option |-> "WithResponse", contentType |-> contentType, body |-> body]

\* opt(&config) for the options that set the error response
ApplyResponseOption(config, opt) ==
    IF opt.option = "WithResponse"
    THEN [config EXCEPT !.errorContentType = opt.contentType,
                        !.errorBody = opt.body]
    ELSE config

\* a buggy option loop: the first option given wins
RECURSIVE ApplyGateOptionsFirstWins(_, _)
ApplyGateOptionsFirstWins(config, opts) ==
    IF opts = <<>> THEN config
    ELSE ApplyResponseOption(ApplyGateOptionsFirstWins(config, Tail(opts)),
                             Head(opts))

\* for _, opt := range opts { opt(&config) }
RECURSIVE ApplyGateOptions(_, _)
ApplyGateOptions(config, opts) ==
    IF opts = <<>> THEN config
    ELSE ApplyGateOptions(ApplyResponseOption(config, Head(opts)), Tail(opts))

\* a buggy allow-set: the entries are stored as written
AllowedMapAsWritten(allowedTypes) == Range(allowedTypes)

\* the loop that fills allowedMap: the media type of every entry that parses
AllowedMap(allowedTypes) ==
    { ParseMediaType(ToLower(allowedTypes[i])).mediatype :
        i \in { j \in 1..Len(allowedTypes) :
                  ParseMediaType(ToLower(allowedTypes[j])).err = Nil } }

\* AllowContentType(contentTypes, opts...): the middleware, with what its
\* closure captures
AllowContentType(contentTypes, opts) ==
    LET config == ApplyGateOptions(
                      [allowedTypes |-> contentTypes,
                       errorBody |-> defaultErrorBody,
                       errorContentType |-> defaultErrorContentType], opts)
        errorResponse ==
            [statusCode |-> StatusUnsupportedMediaType,
             headers |-> [h \in {ContentTypeName} |-> config.errorContentType],
             body |-> config.errorBody]
    IN  [kind |-> "gate", tag |-> "AllowContentType", opts |-> opts,
         config |-> config, allowedMap |-> AllowedMap(config.allowedTypes),
         errorResponse |-> errorResponse]

\* decisions of a handler body: call next, or return a response and error
CallsNext(ctx, request) ==
    [callNext |-> TRUE, ctx |-> ctx, req |-> request]

Returns(resp, err) == [callNext |-> FALSE, resp |-> resp, err |-> err]

\* a buggy handler: the whole header value, parameters included, is looked
\* up in the allow-set
AllowContentTypeWholeValue(mw, ctx, request) ==
    LET contentTypeHeader ==
            MapGet(request.headers, CanonicalHeaderKey(ContentTypeName))
        parsed == ParseMediaType(ToLower(contentTypeHeader))
    IN  IF contentTypeHeader = <<>> THEN Returns(mw.errorResponse, Nil)
        ELSE IF parsed.err # Nil THEN Returns(mw.errorResponse, Nil)
        ELSE IF ToLower(contentTypeHeader) \notin mw.allowedMap
             THEN Returns(mw.errorResponse, Nil)
        ELSE CallsNext(ctx, request)

\* a buggy handler: a rejection also reports an error value
AllowContentTypeRejectsWithError(mw, ctx, request) ==
    LET contentTypeHeader ==
            MapGet(request.headers, CanonicalHeaderKey(ContentTypeName))
        parsed == ParseMediaType(ToLower(contentTypeHeader))
    IN  IF contentTypeHeader = <<>> THEN Returns(mw.errorResponse, Nil)
        ELSE IF parsed.err # Nil
             THEN Returns(mw.errorResponse, parsed.err)
        ELSE IF parsed.mediatype \notin mw.allowedMap
             THEN Returns(mw.errorResponse, Nil)
        ELSE CallsNext(ctx, request)

\* a buggy handler: a gate with nothing in its allow-set lets every request
\* with a content type through
AllowContentTypeOpenWhenEmpty(mw, ctx, request) ==
    LET contentTypeHeader ==
            MapGet(request.headers, CanonicalHeaderKey(ContentTypeName))
        parsed == ParseMediaType(ToLower(contentTypeHeader))
    IN  IF contentTypeHeader = <<>> THEN Returns(mw.errorResponse, Nil)
        ELSE IF parsed.err # Nil THEN Returns(mw.errorResponse, Nil)
        ELSE IF mw.allowedMap # {} /\ parsed.mediatype \notin mw.allowedMap
             THEN Returns(mw.errorResponse, Nil)
        ELSE CallsNext(ctx, request)

\* the handler AllowContentType returns, up to its return or its call of next
AllowContentTypeHandler(mw, ctx, request) ==
    LET contentTypeHeader ==
            MapGet(request.headers, CanonicalHeaderKey(ContentTypeName))
        parsed == ParseMediaType(ToLower(contentTypeHeader))
    IN  IF contentTypeHeader = <<>> THEN Returns(mw.errorResponse, Nil)
        ELSE IF parsed.err # Nil THEN Returns(mw.errorResponse, Nil)
        ELSE IF parsed.mediatype \notin mw.allowedMap
             THEN Returns(mw.errorResponse, Nil)
        ELSE CallsNext(ctx, request)

----------------------------------------------------------------------------
(* context.Context.  A context is Background or a node made by WithValue   *)
(* from a parent; the nodes live in a heap and are never written again.    *)

\* a value held in an interface: its dynamic type and, as a record of
\* fields, the value
Typed(type, v) == [type |-> type, v |-> v]

\* a string, and a value of a named string type, held in an interface
StringValue(s) == Typed("string", [s |-> s])

Named(type, s) == Typed(type, [s |-> s])

\* the nil interface: what ctx.Value(key) returns when key has no binding
NilValue == Named("nil", "")

\* context.WithValue(parent, key, val), with a buggy form that writes the
\* binding into the parent node
WithValueInPlace(heap, parentCtx, key, val) ==
    IF parentCtx = Background
    THEN [ctxs |-> Append(heap, [parent |-> parentCtx, key |-> key,
                                 val |-> val]),
          ctx |-> Len(heap) + 1]
    ELSE [ctxs |-> Append([heap EXCEPT ![parentCtx] =
                              [parent |-> Len(heap) + 1, key |-> key,
                               val |-> val]],
                          heap[parentCtx]),
          ctx |-> parentCtx]

WithValue(heap, parentCtx, key, val) ==
    [ctxs |-> Append(heap, [parent |-> parentCtx, key |-> key, val |-> val]),
     ctx |-> Len(heap) + 1]

\* ctx.Value(key): the nearest binding of key on the way to the root
RECURSIVE Value(_, _, _)
Value(heap, ctx, key) ==
    IF ctx = Background THEN NilValue
    ELSE IF heap[ctx].key = key THEN heap[ctx].val
    ELSE Value(heap, heap[ctx].parent, key)

\* a handler body ends by calling next with a context it derived
CallsNextWith(derived, request) ==
    [callNext |-> TRUE, ctx |-> derived.ctx, req |-> request,
     ctxs |-> derived.ctxs]

----------------------------------------------------------------------------
(* RequestID and ExtendedRequestID.                                        *)

\* requestid.CtxKey{}
CtxKey == Named("requestid.CtxKey", "")

\* requestid.WithCtxKey(ctxKey)
WithCtxKey(ctxKey) == [option |-> "WithCtxKey", ctxKey |-> ctxKey]

\* opt(&config) for the options that set the context key
ApplyCtxKeyOption(config, opt) ==
    IF opt.option = "WithCtxKey"
    THEN [config EXCEPT !.ctxKey = opt.ctxKey]
    ELSE config

\* for _, opt := range opts { opt(&config) }
RECURSIVE ApplyRequestIDOptions(_, _)
ApplyRequestIDOptions(config, opts) ==
    IF opts = <<>> THEN config
    ELSE ApplyRequestIDOptions(ApplyCtxKeyOption(config, Head(opts)),
                               Tail(opts))

\* RequestID(opts...): the middleware, with what its closure captures
RequestID(opts) ==
    [kind |-> "requestid", tag |-> "RequestID", opts |-> opts,
     config |-> ApplyRequestIDOptions([ctxKey |-> CtxKey], opts)]

\* a buggy ExtendedRequestID: its default key is a key of its own
ExtendedRequestIDOwnKey(opts) ==
    [kind |-> "extendedrequestid", tag |-> "ExtendedRequestID", opts |-> opts,
     config |-> ApplyRequestIDOptions(
                    [ctxKey |-> Named("requestid.ExtendedCtxKey", "")], opts)]

\* ExtendedRequestID(opts...)
ExtendedRequestID(opts) ==
    [kind |-> "extendedrequestid", tag |-> "ExtendedRequestID", opts |-> opts,
     config |-> ApplyRequestIDOptions([ctxKey |-> CtxKey], opts)]

\* a buggy handler: an absent identifier is not bound at all
RequestIDSkipsEmpty(mw, heap, ctx, request) ==
    LET reqID == request.requestID
    IN  IF reqID = ""
        THEN [callNext |-> TRUE, ctx |-> ctx, req |-> request, ctxs |-> heap]
        ELSE CallsNextWith(WithValue(heap, ctx, mw.config.ctxKey,
                                     StringValue(reqID)), request)

\* a buggy handler: the identifier is bound under CtxKey{} as well as under
\* the configured key
RequestIDAlsoBindsDefault(mw, heap, ctx, request) ==
    LET reqID == request.requestID
        first == WithValue(heap, ctx, CtxKey, StringValue(reqID))
    IN  CallsNextWith(WithValue(first.ctxs, first.ctx, mw.config.ctxKey,
                                StringValue(reqID)), request)

\* the handler of RequestID, up to its call of next
RequestIDHandler(mw, heap, ctx, request) ==
    LET reqID == request.requestID
    IN  CallsNextWith(WithValue(heap, ctx, mw.config.ctxKey,
                                StringValue(reqID)), request)

\* the handler of ExtendedRequestID, up to its call of next
ExtendedRequestIDHandler(mw, heap, ctx, request) ==
    LET reqID == request.extendedRequestID
    IN  CallsNextWith(WithValue(heap, ctx, mw.config.ctxKey,
                                StringValue(reqID)), request)

----------------------------------------------------------------------------
(* RequestID and GetReqID of package middleware.                           *)

\* reqIDKey{}
reqIDKey == Named("middleware.reqIDKey", "")

\* middleware.RequestID: its handler binds under reqIDKey{}
middlewareRequestID ==
    [kind |-> "requestid", tag |-> "RequestID", opts |-> <<>>,
     config |-> [ctxKey |-> reqIDKey]]

\* a buggy accessor: the bound value is returned without the type assertion
GetReqIDUnchecked(heap, ctx) == Value(heap, ctx, reqIDKey).v.s

\* GetReqID(ctx)
GetReqID(heap, ctx) ==
    LET reqID == Value(heap, ctx, reqIDKey)
        ok == reqID.type = "string"
    IN  IF ok THEN reqID.v.s ELSE ""

\* a terminal handler that reads the request ID with GetReqID
MockHandler == <<[kind |-> "getreqid", tag |-> "mockHandler"]>>

----------------------------------------------------------------------------
(* StructuredLogger.                                                       *)

\* the body logged in place of a body that is not to be logged
Omitted == <<"(", "o", "m", "i", "t", "t", "e", "d", ")">>

\* logger.WithLogger, WithRequestBodyLogging, WithResponseBodyLogging
WithLogger(logger) == [option |-> "WithLogger", logger |-> logger]

WithRequestBodyLogging(enable) ==
    [option |-> "WithRequestBodyLogging", enable |-> enable]

WithResponseBodyLogging(enable) ==
    [option |-> "WithResponseBodyLogging", enable |-> enable]

\* opt(config)
ApplyLoggerOption(config, opt) ==
    IF opt.option = "WithLogger"
    THEN [config EXCEPT !.logger = opt.logger]
    ELSE IF opt.option = "WithRequestBodyLogging"
    THEN [config EXCEPT !.isRequestBodyLoggingEnable = opt.enable]
    ELSE IF opt.option = "WithResponseBodyLogging"
    THEN [config EXCEPT !.isResponseBodyLoggingEnable = opt.enable]
    ELSE config

\* for _, opt := range opts { opt(config) }
RECURSIVE ApplyLoggerOptions(_, _)
ApplyLoggerOptions(config, opts) ==
    IF opts = <<>> THEN config
    ELSE ApplyLoggerOptions(ApplyLoggerOption(config, Head(opts)), Tail(opts))

\* StructuredLogger(opts...): the middleware, with what its closure captures
StructuredLogger(opts) ==
    [kind |-> "logger", tag |-> "StructuredLogger", opts |-> opts,
     config |-> ApplyLoggerOptions(
                    [logger |-> "slog.Default",
                     isRequestBodyLoggingEnable |-> FALSE,
                     isResponseBodyLoggingEnable |-> FALSE], opts)]

\* config.logger.LogAttrs(ctx, level, msg, attrs...): the record handed to
\* the logger
LogAttrs(logger, ctx, level, msg, attrs) ==
    [logger |-> logger, ctx |-> ctx, level |-> level, msg |-> msg,
     attrs |-> attrs]

Attr(key, value) == [key |-> key, value |-> value]

\* a buggy logRequest: the body is redacted in the caller's request
logRequestInPlace(ctx, config, request) ==
    LET bodySize == Len(request.body)
        redacted == IF ~config.isRequestBodyLoggingEnable
                    THEN [request EXCEPT !.body = Omitted]
                    ELSE request
    IN  [request |-> redacted,
         record |-> LogAttrs(config.logger, ctx, "INFO", "request received",
                             <<Attr("request", redacted),
                               Attr("bodySize", bodySize)>>)]

\* a buggy logRequest: bodySize is taken from the copy that is logged
logRequestSizeOfCopy(ctx, config, request) ==
    LET reqCopy == IF ~config.isRequestBodyLoggingEnable
                   THEN [request EXCEPT !.body = Omitted]
                   ELSE request
        bodySize == Len(reqCopy.body)
    IN  [request |-> request,
         record |-> LogAttrs(config.logger, ctx, "INFO", "request received",
                             <<Attr("request", reqCopy),
                               Attr("bodySize", bodySize)>>)]

\* logRequest(ctx, config, &request): the record, and the caller's request
\* as the call leaves it
logRequest(ctx, config, request) ==
    LET bodySize == Len(request.body)
        reqCopy == IF ~config.isRequestBodyLoggingEnable
                   THEN [request EXCEPT !.body = Omitted]
                   ELSE request
    IN  [request |-> request,
         record |-> LogAttrs(config.logger, ctx, "INFO", "request received",
                             <<Attr("request", reqCopy),
                               Attr("bodySize", bodySize)>>)]

\* a buggy logResponse: a failure is reported without the error
logResponseWithoutError(ctx, config, response, err, duration) ==
    LET bodySize == Len(response.body)
        respCopy == IF ~config.isResponseBodyLoggingEnable
                    THEN [response EXCEPT !.body = Omitted]
                    ELSE response
        attrs == <<Attr("response", respCopy), Attr("bodySize", bodySize),
                   Attr("duration", duration)>>
    IN  [response |-> response,
         record |->
           IF err # Nil
           THEN LogAttrs(config.logger, ctx, "ERROR",
                         "request processing failed", attrs)
           ELSE LogAttrs(config.logger, ctx, "INFO",
                         "request processed successfully", attrs)]

\* logResponse(ctx, config, &response, err, duration): the record, and the
\* caller's response as the call leaves it
logResponse(ctx, config, response, err, duration) ==
    LET bodySize == Len(response.body)
        respCopy == IF ~config.isResponseBodyLoggingEnable
                    THEN [response EXCEPT !.body = Omitted]
                    ELSE response
        attrs == <<Attr("response", respCopy), Attr("bodySize", bodySize),
                   Attr("duration", duration)>>
    IN  [response |-> response,
         record |->
           IF err # Nil
           THEN LogAttrs(config.logger, ctx, "ERROR",
                         "request processing failed",
                         Append(attrs, Attr("error", err)))
           ELSE LogAttrs(config.logger, ctx, "INFO",
                         "request processed successfully", attrs)]

\* the handler of StructuredLogger up to its call of next: the records
\* logged, then next(ctx, request)
StructuredLoggerHandler(mw, ctx, request) ==
    LET logged == logRequest(ctx, mw.config, request)
    IN  [logs |-> <<logged.record>>, callNext |-> TRUE, ctx |-> ctx,
         req |-> logged.request]

\* a buggy tail: a failure of next is not logged
StructuredLoggerSilentOnError(mw, ctx, request, response, err, duration) ==
    LET logged == logResponse(ctx, mw.config, response, err, duration)
    IN  [logs |-> IF err # Nil THEN <<>> ELSE <<logged.record>>,
         callNext |-> FALSE, resp |-> logged.response, err |-> err]

\* a buggy tail: next is called again when it has failed
StructuredLoggerRetries(mw, ctx, request, response, err, duration) ==
    LET logged == logResponse(ctx, mw.config, response, err, duration)
    IN  IF err # Nil
        THEN [logs |-> <<logged.record>>, callNext |-> TRUE, ctx |-> ctx,
              req |-> request]
        ELSE [logs |-> <<logged.record>>, callNext |-> FALSE,
              resp |-> logged.response, err |-> err]

\* the handler of StructuredLogger after next has returned response and
\* err: the records logged, then return response, err
StructuredLoggerReturn(mw, ctx, request, response, err, duration) ==
    LET logged == logResponse(ctx, mw.config, response, err, duration)
    IN  [logs |-> <<logged.record>>, callNext |-> FALSE,
         resp |-> logged.response, err |-> err]

----------------------------------------------------------------------------
(* Bytes and encoding/base64.  A byte string is a sequence of characters;  *)
(* a character's code is its place in ASCII.                               *)

\* the characters with codes 32 to 126, in order ("grave" stands for the
\* grave accent, code 96)
Printable ==
    <<" ", "!", "\"", "#", "$", "%", "&", "'", "(", ")", "*", "+", ",",
      "-", ".", "/", "0", "1", "2", "3", "4", "5", "6", "7", "8", "9",
      ":", ";", "<", "=", ">", "?", "@", "A", "B", "C", "D", "E", "F",
      "G", "H", "I", "J", "K", "L", "M", "N", "O", "P", "Q", "R", "S",
      "T", "U", "V", "W", "X", "Y", "Z", "[", "\\", "]", "^", "_", "grave",
      "a", "b", "c", "d", "e", "f", "g", "h", "i", "j", "k", "l", "m",
      "n", "o", "p", "q", "r", "s", "t", "u", "v", "w", "x", "y", "z",
      "{", "|", "}", "~">>

\* a byte that is none of the characters above
OtherByte == "other"

\* the byte of a character, and the character of a byte
CodeOf(c) ==
    IF c = "\t" THEN 9
    ELSE IF c = "\n" THEN 10
    ELSE IF c = "\r" THEN 13
    ELSE IF IndexOf(c, Printable) # 0 THEN IndexOf(c, Printable) + 31
    ELSE 255

CharOf(b) ==
    IF b = 9 THEN "\t"
    ELSE IF b = 10 THEN "\n"
    ELSE IF b = 13 THEN "\r"
    ELSE IF b >= 32 /\ b <= 126 THEN Printable[b - 31]
    ELSE OtherByte

\* base64.StdEncoding: the alphabet of RFC 4648, padded with "="
encodeStd ==
    <<"A", "B", "C", "D", "E", "F", "G", "H", "I", "J", "K", "L", "M",
      "N", "O", "P", "Q", "R", "S", "T", "U", "V", "W", "X", "Y", "Z",
      "a", "b", "c", "d", "e", "f", "g", "h", "i", "j", "k", "l", "m",
      "n", "o", "p", "q", "r", "s", "t", "u", "v", "w", "x", "y", "z",
      "0", "1", "2", "3", "4", "5", "6", "7", "8", "9", "+", "/">>

StdPadding == "="

\* the character of a 6-bit value
Sextet(n) == encodeStd[n + 1]

\* 64 to the power of 0..3
Pow64(k) == IF k = 0 THEN 1 ELSE IF k = 1 THEN 64 ELSE IF k = 2 THEN 4096
            ELSE 262144

\* 256 to the power of 0..2
Pow256(k) == IF k = 0 THEN 1 ELSE IF k = 1 THEN 256 ELSE 65536

\* base64.StdEncoding.EncodeToString: every three bytes, the last group
\* filled up with zero bits, are written as four characters, and "=" stands
\* where the group had no byte
EncodeToString(src) ==
    LET byte(k) == IF k <= Len(src) THEN CodeOf(src[k]) ELSE 0
        group(q) == byte(3 * q - 2) * 65536 + byte(3 * q - 1) * 256
                    + byte(3 * q)
        groups == (Len(src) + 2) \div 3
    IN  [j \in 1..(4 * groups) |->
           LET q == (j - 1) \div 4 + 1
               pos == (j - 1) % 4
               have == IF Len(src) - 3 * (q - 1) >= 3 THEN 3
                       ELSE Len(src) - 3 * (q - 1)
           IN  IF pos > have THEN StdPadding
               ELSE Sextet((group(q) \div Pow64(3 - pos)) % 64)]

\* the 6-bit value of a character of the alphabet
DecodeMap(c) == IndexOf(c, encodeStd) - 1

InAlphabet(c) == IndexOf(c, encodeStd) # 0

NotNewline(c) == c \notin {"\r", "\n"}

\* base64.StdEncoding.DecodeString: line breaks are skipped; the rest is
\* quanta of four characters of the alphabet, of which the last may end
\* with one or two "="
DecodeString(s) ==
    LET t == SelectSeq(s, NotNewline)
        quanta == Len(t) \div 4
        pads == IF t # <<>> /\ t[Len(t)] = StdPadding
                THEN IF Len(t) > 1 /\ t[Len(t) - 1] = StdPadding THEN 2 ELSE 1
                ELSE 0
        wellFormed ==
            /\ Len(t) % 4 = 0
            /\ \A k \in 1..(Len(t) - pads) : InAlphabet(t[k])
        value(k) == IF t[k] = StdPadding THEN 0 ELSE DecodeMap(t[k])
        quantum(q) == value(4 * q - 3) * 262144 + value(4 * q - 2) * 4096
                      + value(4 * q - 1) * 64 + value(4 * q)
    IN  IF ~wellFormed THEN [bytes |-> <<>>, err |-> "illegal base64 data"]
        ELSE [bytes |->
                [k \in 1..(3 * quanta - pads) |->
                   CharOf((quantum((k - 1) \div 3 + 1)
                           \div Pow256(2 - ((k - 1) % 3))) % 256)],
              err |-> Nil]

----------------------------------------------------------------------------
(* encoding/json and encoding/xml, for the documents the model sends:      *)
(* JSON objects whose members are strings, integers, true, false or null,  *)
(* without escapes; XML elements without attributes, entities or           *)
(* declarations.  Anything else is reported as an error.                   *)

Digits == <<"0", "1", "2", "3", "4", "5", "6", "7", "8", "9">>

IsDigit(c) == IndexOf(c, Digits) # 0

IsLetter(c) == IndexOf(c, UpperLetters) # 0 \/ IndexOf(c, LowerLetters) # 0

\* the number a run of digits spells
RECURSIVE DigitsValue(_)
DigitsValue(ds) ==
    IF ds = <<>> THEN 0
    ELSE DigitsValue(SubSeq(ds, 1, Len(ds) - 1)) * 10
         + (IndexOf(ds[Len(ds)], Digits) - 1)

\* strconv.ParseInt(s, 10, 64): an optional sign and digits
ParseInt(s) ==
    LET signed == s # <<>> /\ s[1] \in {"+", "-"}
        ds == IF signed THEN Tail(s) ELSE s
    IN  IF ds = <<>> \/ \E i \in 1..Len(ds) : ~IsDigit(ds[i])
        THEN [n |-> 0, err |-> "invalid syntax"]
        ELSE [n |-> IF signed /\ s[1] = "-" THEN 0 - DigitsValue(ds)
                    ELSE DigitsValue(ds),
              err |-> Nil]

\* the last position of the run of characters from position i of s that are
\* digits, or letters; i - 1 when the run is empty
DigitRunEnd(s, i) ==
    IF \E j \in i..Len(s) : ~IsDigit(s[j])
    THEN (CHOOSE j \in i..Len(s) :
            ~IsDigit(s[j]) /\ \A k \in i..(j - 1) : IsDigit(s[k])) - 1
    ELSE Len(s)

LetterRunEnd(s, i) ==
    IF \E j \in i..Len(s) : ~IsLetter(s[j])
    THEN (CHOOSE j \in i..Len(s) :
            ~IsLetter(s[j]) /\ \A k \in i..(j - 1) : IsLetter(s[k])) - 1
    ELSE Len(s)

\* the first position from i of s that holds c, 0 when there is none
IndexFrom(s, i, c) ==
    IF \E j \in i..Len(s) : s[j] = c
    THEN CHOOSE j \in i..Len(s) : s[j] = c /\ \A k \in i..(j - 1) : s[k] # c
    ELSE 0

\* a token of a document: its kind, its text and its number
Tok(t, s, n) == [t |-> t, s |-> s, n |-> n]

BadTok == Tok("bad", <<>>, 0)

\* json: the white space between tokens, and the structural characters
JsonSpace == {" ", "\t", "\n", "\r"}

JsonPunct == {"{", "}", "[", "]", ":", ","}

\* json: the scanner.  The tokens of s from position i, ending with a bad
\* token where s stops being JSON
RECURSIVE jsonScan(_, _, _)
jsonScan(s, i, acc) ==
    IF i > Len(s) THEN acc
    ELSE IF s[i] \in JsonSpace THEN jsonScan(s, i + 1, acc)
    ELSE IF s[i] \in JsonPunct
    THEN jsonScan(s, i + 1, Append(acc, Tok(s[i], <<>>, 0)))
    ELSE IF s[i] = "\""
    THEN LET j == IndexFrom(s, i + 1, "\"")
             text == SubSeq(s, i + 1, j - 1)
         IN  IF j = 0 THEN Append(acc, BadTok)
             ELSE IF \E k \in 1..Len(text) :
                       text[k] \in {"\\", "\t", "\n", "\r", OtherByte}
             THEN Append(acc, BadTok)
             ELSE jsonScan(s, j + 1, Append(acc, Tok("str", text, 0)))
    ELSE IF IsDigit(s[i]) \/ s[i] = "-"
    THEN LET first == IF s[i] = "-" THEN i + 1 ELSE i
             j == DigitRunEnd(s, first)
         IN  IF j < first THEN Append(acc, BadTok)
             ELSE IF s[first] = "0" /\ j > first THEN Append(acc, BadTok)
             ELSE IF j < Len(s) /\ s[j + 1] \in {".", "e", "E"}
             THEN Append(acc, BadTok)
             ELSE jsonScan(s, j + 1,
                           Append(acc, Tok("num", <<>>,
                                           ParseInt(SubSeq(s, i, j)).n)))
    ELSE IF IsLetter(s[i])
    THEN LET j == LetterRunEnd(s, i)
             word == SubSeq(s, i, j)
         IN  IF word = <<"t", "r", "u", "e">>
             THEN jsonScan(s, j + 1, Append(acc, Tok("true", <<>>, 0)))
             ELSE IF word = <<"f", "a", "l", "s", "e">>
             THEN jsonScan(s, j + 1, Append(acc, Tok("false", <<>>, 0)))
             ELSE IF word = <<"n", "u", "l", "l">>
             THEN jsonScan(s, j + 1, Append(acc, Tok("null", <<>>, 0)))
             ELSE Append(acc, BadTok)
    ELSE Append(acc, BadTok)

JsonSyntaxError == [err |-> "json: syntax error", members |-> <<>>]

\* json: the members of an object, read from the token after "{" or ","
RECURSIVE jsonMembers(_, _, _)
jsonMembers(toks, i, acc) ==
    IF i + 3 > Len(toks) THEN JsonSyntaxError
    ELSE IF \/ toks[i].t # "str"
            \/ toks[i + 1].t # ":"
            \/ toks[i + 2].t \notin {"str", "num", "true", "false", "null"}
    THEN JsonSyntaxError
    ELSE LET more == Append(acc, [key |-> toks[i].s, val |-> toks[i + 2]])
         IN  IF toks[i + 3].t = "}"
             THEN IF i + 3 = Len(toks)
                  THEN [err |-> Nil, members |-> more]
                  ELSE JsonSyntaxError
             ELSE IF toks[i + 3].t = ","
             THEN jsonMembers(toks, i + 4, more)
             ELSE JsonSyntaxError

\* json: the document s as the members of an object; null has none, and
\* any other value cannot be decoded into a struct
jsonDocument(s) ==
    LET toks == jsonScan(s, 1, <<>>)
    IN  IF toks = <<>> THEN JsonSyntaxError
        ELSE IF toks[Len(toks)].t = "bad" THEN JsonSyntaxError
        ELSE IF Len(toks) = 1 /\ toks[1].t = "null"
        THEN [err |-> Nil, members |-> <<>>]
        ELSE IF toks[1].t = "{"
        THEN IF Len(toks) = 2 /\ toks[2].t = "}"
             THEN [err |-> Nil, members |-> <<>>]
             ELSE jsonMembers(toks, 2, <<>>)
        ELSE [err |-> "json: cannot unmarshal into Go value",
              members |-> <<>>]

\* xml: the characters of a name
IsNameChar(c) == IsLetter(c) \/ IsDigit(c) \/ c \in {"_", "-", "."}

\* the last position of the run of characters from position i of s that
\* are not "<"
TextRunEnd(s, i) ==
    LET j == IndexFrom(s, i, "<") IN IF j = 0 THEN Len(s) ELSE j - 1

\* xml: the scanner.  The start elements, end elements and character data
\* of s from position i, ending with a bad token where s stops being XML
RECURSIVE xmlScan(_, _, _)
xmlScan(s, i, acc) ==
    IF i > Len(s) THEN acc
    ELSE IF s[i] = "<"
    THEN LET j == IndexFrom(s, i + 1, ">")
             closing == i + 1 < j /\ s[i + 1] = "/"
             name == SubSeq(s, IF closing THEN i + 2 ELSE i + 1, j - 1)
         IN  IF j = 0 \/ name = <<>> THEN Append(acc, BadTok)
             ELSE IF \E k \in 1..Len(name) : ~IsNameChar(name[k])
             THEN Append(acc, BadTok)
             ELSE xmlScan(s, j + 1,
                          Append(acc, Tok(IF closing THEN "close" ELSE "open",
                                          name, 0)))
    ELSE LET j == TextRunEnd(s, i)
             text == SubSeq(s, i, j)
         IN  IF \E k \in 1..Len(text) : text[k] \in {"&", OtherByte}
             THEN Append(acc, BadTok)
             ELSE xmlScan(s, j + 1, Append(acc, Tok("text", text, 0)))

\* xml: the position of the end element that closes the elements open,
\* innermost last, from position i of toks; 0 when the document ends or is
\* malformed before
RECURSIVE xmlClose(_, _, _)
xmlClose(toks, i, open) ==
    IF i > Len(toks) THEN 0
    ELSE IF toks[i].t = "bad" THEN 0
    ELSE IF toks[i].t = "text" THEN xmlClose(toks, i + 1, open)
    ELSE IF toks[i].t = "open"
    THEN xmlClose(toks, i + 1, Append(open, toks[i].s))
    ELSE IF toks[i].s # open[Len(open)] THEN 0
    ELSE IF Len(open) = 1 THEN i
    ELSE xmlClose(toks, i + 1, SubSeq(open, 1, Len(open) - 1))

\* xml: the character data directly inside an element, from position i of
\* toks to its end element at position e
RECURSIVE xmlCharData(_, _, _)
xmlCharData(toks, i, e) ==
    IF i >= e THEN <<>>
    ELSE IF toks[i].t = "text"
    THEN toks[i].s \o xmlCharData(toks, i + 1, e)
    ELSE IF toks[i].t = "open"
    THEN xmlCharData(toks, xmlClose(toks, i + 1, <<toks[i].s>>) + 1, e)
    ELSE xmlCharData(toks, i + 1, e)

XmlSyntaxError == [err |-> "XML syntax error", members |-> <<>>]

\* xml: the child elements of the element named root, read from position i
\* of toks, each with its character data
RECURSIVE xmlChildren(_, _, _, _)
xmlChildren(toks, i, root, acc) ==
    IF i > Len(toks) THEN XmlSyntaxError
    ELSE IF toks[i].t = "bad" THEN XmlSyntaxError
    ELSE IF toks[i].t = "text" THEN xmlChildren(toks, i + 1, root, acc)
    ELSE IF toks[i].t = "close"
    THEN IF toks[i].s = root THEN [err |-> Nil, members |-> acc]
         ELSE XmlSyntaxError
    ELSE LET e == xmlClose(toks, i + 1, <<toks[i].s>>)
         IN  IF e = 0 THEN XmlSyntaxError
             ELSE xmlChildren(toks, e + 1, root,
                              Append(acc, [key |-> toks[i].s,
                                           val |-> xmlCharData(toks, i + 1, e)]))

\* xml: the document s as the child elements of its first element
xmlDocument(s) ==
    LET toks == xmlScan(s, 1, <<>>)
        first == IF \E i \in 1..Len(toks) : toks[i].t # "text"
                 THEN CHOOSE i \in 1..Len(toks) :
                        /\ toks[i].t # "text"
                        /\ \A k \in 1..(i - 1) : toks[k].t = "text"
                 ELSE 0
    IN  IF first = 0 THEN [err |-> "EOF", members |-> <<>>]
        ELSE IF toks[first].t # "open" THEN XmlSyntaxError
        ELSE xmlChildren(toks, first + 1, toks[first].s, <<>>)

----------------------------------------------------------------------------
(* The struct types of the Validate tests.                                 *)

\* a struct field: its name, its kind, its json key (empty when json skips
\* the field), its xml name and its validate tags
Field(name, kind, json, xml, tags) ==
    [name |-> name, kind |-> kind, json |-> json, xml |-> xml, tags |-> tags]

Tag(tag, param) == [tag |-> tag, param |-> param]

Fields(T) ==
    IF T = "TestUser"
    THEN <<Field("Name", "string", <<"n", "a", "m", "e">>, <<"n", "a", "m", "e">>,
                 <<Tag("required", 0)>>),
           Field("Email", "string", <<"e", "m", "a", "i", "l">>, <<"e", "m", "a", "i", "l">>,
                 <<Tag("required", 0), Tag("email", 0)>>),
           Field("Age", "int", <<"a", "g", "e">>, <<"a", "g", "e">>,
                 <<Tag("gte", 0), Tag("lte", 130)>>)>>
    ELSE IF T = "TestUserWithUnmarshaler"
    THEN <<Field("Name", "string", <<"N", "a", "m", "e">>, <<"N", "a", "m", "e">>,
                 <<Tag("required", 0)>>),
           Field("Email", "string", <<"E", "m", "a", "i", "l">>, <<"E", "m", "a", "i", "l">>,
                 <<Tag("required", 0), Tag("email", 0)>>),
           Field("Age", "int", <<"A", "g", "e">>, <<"A", "g", "e">>,
                 <<Tag("gte", 0), Tag("lte", 130)>>),
           Field("FromJSON", "bool", <<"F", "r", "o", "m", "J", "S", "O", "N">>, <<"F", "r", "o", "m", "J", "S", "O", "N">>, <<>>)>>
    ELSE IF T = "TestUserWithValidator"
    THEN <<Field("Name", "string", <<"n", "a", "m", "e">>, <<"N", "a", "m", "e">>, <<>>),
           Field("Email", "string", <<"e", "m", "a", "i", "l">>, <<"E", "m", "a", "i", "l">>, <<>>),
           Field("Age", "int", <<"a", "g", "e">>, <<"A", "g", "e">>, <<>>),
           Field("IsValidated", "bool", <<>>, <<"I", "s", "V", "a", "l", "i", "d", "a", "t", "e", "d">>, <<>>),
           Field("ShouldFail", "bool", <<"s", "h", "o", "u", "l", "d", "F", "a", "i", "l">>, <<"S", "h", "o", "u", "l", "d", "F", "a", "i", "l">>,
                 <<>>)>>
    ELSE <<Field("Name", "string", <<"n", "a", "m", "e">>, <<"N", "a", "m", "e">>, <<>>),
           Field("Email", "string", <<"e", "m", "a", "i", "l">>, <<"E", "m", "a", "i", "l">>, <<>>),
           Field("Age", "int", <<"a", "g", "e">>, <<"A", "g", "e">>, <<>>),
           Field("FromJSON", "bool", <<"F", "r", "o", "m", "J", "S", "O", "N">>, <<"F", "r", "o", "m", "J", "S", "O", "N">>, <<>>),
           Field("IsValidated", "bool", <<"I", "s", "V", "a", "l", "i", "d", "a", "t", "e", "d">>, <<"I", "s", "V", "a", "l", "i", "d", "a", "t", "e", "d">>,
                 <<>>)>>

\* the zero value of a kind, and var data T
ZeroOf(kind) ==
    IF kind = "string" THEN <<>> ELSE IF kind = "int" THEN 0 ELSE FALSE

Zero(T) ==
    [n \in {Fields(T)[i].name : i \in 1..Len(Fields(T))} |->
       ZeroOf(Fields(T)[CHOOSE i \in 1..Len(Fields(T)) :
                          Fields(T)[i].name = n].kind)]

\* json: the field a key names, 0 when it names none: an exact match of
\* the key is preferred to a match that ignores case
jsonField(T, key) ==
    LET fs == Fields(T)
        exact == {i \in 1..Len(fs) : fs[i].json # <<>> /\ fs[i].json = key}
        fold == {i \in 1..Len(fs) :
                   fs[i].json # <<>> /\ ToLower(fs[i].json) = ToLower(key)}
        least(S) == CHOOSE i \in S : \A j \in S : i <= j
    IN  IF exact # {} THEN least(exact)
        ELSE IF fold # {} THEN least(fold)
        ELSE 0

\* json: the members stored into the fields they name; null stores nothing
RECURSIVE jsonAssign(_, _, _)
jsonAssign(T, data, members) ==
    IF members = <<>> THEN [data |-> data, err |-> Nil]
    ELSE LET m == Head(members)
             i == jsonField(T, m.key)
             f == Fields(T)[i]
             mismatch == [data |-> data,
                          err |-> "json: cannot unmarshal into Go struct field"]
         IN  IF i = 0 \/ m.val.t = "null"
             THEN jsonAssign(T, data, Tail(members))
             ELSE IF f.kind = "string"
             THEN IF m.val.t = "str"
                  THEN jsonAssign(T, [data EXCEPT ![f.name] = m.val.s],
                                  Tail(members))
                  ELSE mismatch
             ELSE IF f.kind = "int"
             THEN IF m.val.t = "num"
                  THEN jsonAssign(T, [data EXCEPT ![f.name] = m.val.n],
                                  Tail(members))
                  ELSE mismatch
             ELSE IF m.val.t \in {"true", "false"}
                  THEN jsonAssign(T, [data EXCEPT ![f.name] = m.val.t = "true"],
                                  Tail(members))
                  ELSE mismatch

\* json.Unmarshal(body, &data)
jsonUnmarshal(T, data, body) ==
    LET doc == jsonDocument(body)
    IN  IF doc.err # Nil THEN [data |-> data, err |-> doc.err]
        ELSE jsonAssign(T, data, doc.members)

\* xml: the field an element names, 0 when it names none
xmlField(T, name) ==
    LET fs == Fields(T)
        named == {i \in 1..Len(fs) : fs[i].xml = name}
    IN  IF named # {} THEN CHOOSE i \in named : \A j \in named : i <= j
        ELSE 0

\* strconv.ParseBool
ParseBool(s) ==
    IF s \in {<<"1">>, <<"t">>, <<"T">>, <<"T", "R", "U", "E">>, <<"t", "r", "u", "e">>, <<"T", "r", "u", "e">>}
    THEN [b |-> TRUE, err |-> Nil]
    ELSE IF s \in {<<"0">>, <<"f">>, <<"F">>, <<"F", "A", "L", "S", "E">>, <<"f", "a", "l", "s", "e">>,
                   <<"F", "a", "l", "s", "e">>}
    THEN [b |-> FALSE, err |-> Nil]
    ELSE [b |-> FALSE, err |-> "invalid syntax"]

\* xml: the character data of the child elements stored into the fields
\* they name; empty character data stores the zero value
RECURSIVE xmlAssign(_, _, _)
xmlAssign(T, data, members) ==
    IF members = <<>> THEN [data |-> data, err |-> Nil]
    ELSE LET m == Head(members)
             i == xmlField(T, m.key)
             f == Fields(T)[i]
             text == TrimSpace(m.val)
         IN  IF i = 0 THEN xmlAssign(T, data, Tail(members))
             ELSE IF f.kind = "string"
             THEN xmlAssign(T, [data EXCEPT ![f.name] = m.val], Tail(members))
             ELSE IF m.val = <<>>
             THEN xmlAssign(T, [data EXCEPT ![f.name] = ZeroOf(f.kind)],
                            Tail(members))
             ELSE IF f.kind = "int"
             THEN IF ParseInt(text).err = Nil
                  THEN xmlAssign(T, [data EXCEPT ![f.name] = ParseInt(text).n],
                                 Tail(members))
                  ELSE [data |-> data, err |-> ParseInt(text).err]
             ELSE IF ParseBool(text).err = Nil
                  THEN xmlAssign(T, [data EXCEPT ![f.name] = ParseBool(text).b],
                                 Tail(members))
                  ELSE [data |-> data, err |-> ParseBool(text).err]

\* xml.Unmarshal(body, &data)
xmlUnmarshal(T, data, body) ==
    LET doc == xmlDocument(body)
    IN  IF doc.err # Nil THEN [data |-> data, err |-> doc.err]
        ELSE xmlAssign(T, data, doc.members)

\* validator: the email tag, as the shape local@domain of characters that
\* addresses are written with
IsEmail(s) ==
    LET at == IndexOf("@", s)
    IN  /\ at > 1
        /\ at < Len(s)
        /\ \A i \in 1..Len(s) :
             \/ i = at
             \/ IsLetter(s[i]) \/ IsDigit(s[i]) \/ s[i] \in {".", "-", "_", "+"}

\* validator: one tag of one field
TagHolds(kind, value, tag) ==
    IF tag.tag = "required" THEN value # ZeroOf(kind)
    ELSE IF tag.tag = "email" THEN IsEmail(value)
    ELSE IF tag.tag = "gte" THEN value >= tag.param
    ELSE IF tag.tag = "lte" THEN value <= tag.param
    ELSE TRUE

\* validate.Struct(data): an error when a tag of a field does not hold
ValidateStruct(T, data) ==
    IF \A i \in 1..Len(Fields(T)) :
         \A k \in 1..Len(Fields(T)[i].tags) :
           TagHolds(Fields(T)[i].kind, data[Fields(T)[i].name],
                    Fields(T)[i].tags[k])
    THEN Nil
    ELSE "validation failed"

\* whether *T has the method UnmarshalRequest([]byte) error
HasUnmarshalRequest(T) ==
    T \in {"TestUserWithUnmarshaler", "TestUserWithCustomAll"}

\* (*T).UnmarshalRequest(body): the value it leaves and the error
UnmarshalRequest(T, data, body) ==
    IF T = "TestUserWithUnmarshaler"
    THEN [data |-> [data EXCEPT !.Name = <<"J", "o", "h", "n", " ", "C", "u", "s", "t", "o", "m">>,
                                !.Email = <<"j", "o", "h", "n", ".", "c", "u", "s", "t", "o", "m", "@", "e", "x", "a", "m", "p", "l", "e", ".", "c", "o", "m">>,
                                !.Age = 35,
                                !.FromJSON = FALSE],
          err |-> Nil]
    ELSE [data |-> [data EXCEPT !.Name = <<"C", "u", "s", "t", "o", "m", " ", "N", "a", "m", "e">>,
                                !.Email = <<"c", "u", "s", "t", "o", "m", "@", "e", "x", "a", "m", "p", "l", "e", ".", "c", "o", "m">>,
                                !.Age = 42,
                                !.FromJSON = FALSE],
          err |-> Nil]

\* whether *T has the method Validate() error
HasValidate(T) == T \in {"TestUserWithValidator", "TestUserWithCustomAll"}

\* (*T).Validate(): the value it leaves and the error
ValidateMethod(T, data) ==
    IF T = "TestUserWithValidator"
    THEN [data |-> [data EXCEPT !.IsValidated = TRUE],
          err |-> IF data.Name = <<>> THEN "name is required"
                  ELSE IF data.Email = <<>> THEN "email is required"
                  ELSE IF data.Age < 0 \/ data.Age > 130
                  THEN "age must be between 0 and 130"
                  ELSE IF data.ShouldFail
                  THEN "validation intentionally failed"
                  ELSE Nil]
    ELSE [data |-> [data EXCEPT !.IsValidated = TRUE], err |-> Nil]

----------------------------------------------------------------------------
(* Validate (package validate).                                            *)

\* http.StatusBadRequest
StatusBadRequest == 400

\* validate.defaultErrorBody
validateDefaultErrorBody == <<"B", "a", "d", " ", "R", "e", "q", "u", "e", "s", "t", ":", " ", "V", "a", "l", "i", "d", "a", "t", "i", "o", "n", " ", "F", "a", "i", "l", "e", "d">>

\* validate.defaultErrorContentType
validateDefaultErrorContentType == <<"t", "e", "x", "t", "/", "p", "l", "a", "i", "n", ";", " ", "c", "h", "a", "r", "s", "e", "t", "=", "u", "t", "f", "-", "8">>

\* validate.CtxKey{}
validateCtxKey == Named("validate.CtxKey", "")

\* validate.WithCtxKey(ctxKey)
validateWithCtxKey(ctxKey) ==
    [option |-> "validate.WithCtxKey", ctxKey |-> ctxKey]

\* validate.WithResponse(contentType, body)
validateWithResponse(contentType, body) ==
    [option |-> "validate.WithResponse", contentType |-> contentType,
     body |-> body]

\* opt(&config)
ApplyValidateOption(config, opt) ==
    IF opt.option = "validate.WithCtxKey"
    THEN [config EXCEPT !.ctxKey = opt.ctxKey]
    ELSE IF opt.option = "validate.WithResponse"
    THEN [config EXCEPT !.errorContentType = opt.contentType,
                        !.errorBody = opt.body]
    ELSE config

\* for _, opt := range opts { opt(&config) }
RECURSIVE ApplyValidateOptions(_, _)
ApplyValidateOptions(config, opts) ==
    IF opts = <<>> THEN config
    ELSE ApplyValidateOptions(ApplyValidateOption(config, Head(opts)),
                              Tail(opts))

\* determineContentType(body)
determineContentType(body) ==
    LET rest == TrimLeftSpace(body)
    IN  IF rest = <<>> THEN "unknown"
        ELSE IF rest[1] \in {"{", "["} THEN "json"
        ELSE IF rest[1] = "<" THEN "xml"
        ELSE "unknown"

\* Validate[T](opts...): the middleware, with what its closure captures
Validate(T, opts) ==
    LET config == ApplyValidateOptions(
                      [ctxKey |-> validateCtxKey,
                       errorBody |-> validateDefaultErrorBody,
                       errorContentType |-> validateDefaultErrorContentType],
                      opts)
        errorResponse ==
            [statusCode |-> StatusBadRequest,
             headers |-> [h \in {ContentTypeName} |-> config.errorContentType],
             body |-> config.errorBody]
    IN  [kind |-> "validate", tag |-> "Validate", type |-> T, opts |-> opts,
         config |-> config, errorResponse |-> errorResponse]

\* a buggy binding: the value is bound under the package's key whatever key
\* is configured
validateBindDefaultKey(mw, heap, ctx, request, validated) ==
    IF validated.err # Nil THEN Returns(mw.errorResponse, Nil)
    ELSE CallsNextWith(WithValue(heap, ctx, validateCtxKey,
                                 Typed(mw.type, validated.data)),
                       request)

\* the handler of Validate[T] once data is validated: validation errors
\* reject; otherwise data is bound under the configured key and next is
\* called with the derived context
validateBind(mw, heap, ctx, request, validated) ==
    IF validated.err # Nil THEN Returns(mw.errorResponse, Nil)
    ELSE CallsNextWith(WithValue(heap, ctx, mw.config.ctxKey,
                                 Typed(mw.type, validated.data)),
                       request)

\* a buggy validation: the struct-tag validator is run for every type
validateDataByTags(T, data) ==
    [data |-> data, err |-> ValidateStruct(T, data)]

\* validation of the decoded data: its Validate method when T has one,
\* the struct-tag validator otherwise
validateData(T, data) ==
    IF HasValidate(T) THEN ValidateMethod(T, data)
    ELSE [data |-> data, err |-> ValidateStruct(T, data)]

\* the handler of Validate[T] once the body is unmarshalled into data
validateUnmarshalled(mw, heap, ctx, request, unmarshalled) ==
    IF unmarshalled.err # Nil THEN Returns(mw.errorResponse, Nil)
    ELSE validateBind(mw, heap, ctx, request,
                      validateData(mw.type, unmarshalled.data))

\* a buggy switch: when the codec of the content type fails the other codec
\* is tried
unmarshalAsWithFallback(contentType, T, requestBody) ==
    LET json == jsonUnmarshal(T, Zero(T), requestBody)
        xml == xmlUnmarshal(T, Zero(T), requestBody)
    IN  IF contentType = "xml"
        THEN IF xml.err = Nil THEN xml ELSE json
        ELSE IF json.err = Nil THEN json ELSE xml

\* switch contentType: JSON and XML by their codec, JSON by default
unmarshalAs(contentType, T, requestBody) ==
    IF contentType = "json" THEN jsonUnmarshal(T, Zero(T), requestBody)
    ELSE IF contentType = "xml" THEN xmlUnmarshal(T, Zero(T), requestBody)
    ELSE jsonUnmarshal(T, Zero(T), requestBody)

\* a buggy decode step: a body that is detected as JSON or XML is decoded by
\* the codec also when T has UnmarshalRequest
unmarshalBodyCodecFirst(T, requestBody) ==
    IF HasUnmarshalRequest(T) /\ determineContentType(requestBody) = "unknown"
    THEN UnmarshalRequest(T, Zero(T), requestBody)
    ELSE unmarshalAs(determineContentType(requestBody), T, requestBody)

\* var data T, filled from the body by T's UnmarshalRequest when it has
\* one, by the codec of the detected content type otherwise
unmarshalBody(T, requestBody) ==
    IF HasUnmarshalRequest(T)
    THEN UnmarshalRequest(T, Zero(T), requestBody)
    ELSE unmarshalAs(determineContentType(requestBody), T, requestBody)

\* a buggy rejection: a body that is not base64 is reported as an error
validateDecodedReturnsError(mw, heap, ctx, request, decoded) ==
    IF decoded.err # Nil THEN Returns(mw.errorResponse, decoded.err)
    ELSE validateUnmarshalled(mw, heap, ctx, request,
                              unmarshalBody(mw.type, decoded.bytes))

\* a buggy handler: var data T is declared once, outside the handler, so
\* every request is unmarshalled into the variable the closure captured
validateDecodedSharedData(mw, heap, ctx, request, decoded) ==
    IF decoded.err # Nil THEN Returns(mw.errorResponse, Nil)
    ELSE LET data == IF "data" \in DOMAIN mw THEN mw.data
                     ELSE Zero(mw.type)
             unmarshalled == jsonUnmarshal(mw.type, data, decoded.bytes)
             d == validateUnmarshalled(mw, heap, ctx, request, unmarshalled)
         IN  [k \in DOMAIN d \cup {"captured"} |->
                IF k = "captured"
                THEN [f \in DOMAIN mw \cup {"data"} |->
                        IF f = "data" THEN unmarshalled.data ELSE mw[f]]
                ELSE d[k]]

\* the handler of Validate[T] once the body is base64-decoded
validateDecoded(mw, heap, ctx, request, decoded) ==
    IF decoded.err # Nil THEN Returns(mw.errorResponse, Nil)
    ELSE validateUnmarshalled(mw, heap, ctx, request,
                              unmarshalBody(mw.type, decoded.bytes))

\* a buggy handler: an empty body is decoded and validated like any other
ValidateHandlerDecodesEmpty(mw, heap, ctx, request) ==
    validateDecoded(mw, heap, ctx, request,
                    IF request.isBase64Encoded
                    THEN DecodeString(request.body)
                    ELSE [bytes |-> request.body, err |-> Nil])

\* a buggy handler: the body is taken as it is sent, whatever the request's
\* IsBase64Encoded says
ValidateHandlerIgnoresFlag(mw, heap, ctx, request) ==
    IF request.body = <<>> THEN Returns(mw.errorResponse, Nil)
    ELSE validateDecoded(mw, heap, ctx, request,
                         [bytes |-> request.body, err |-> Nil])

\* the handler of Validate[T], up to its return or its call of next
ValidateHandler(mw, heap, ctx, request) ==
    IF request.body = <<>> THEN Returns(mw.errorResponse, Nil)
    ELSE validateDecoded(mw, heap, ctx, request,
                         IF request.isBase64Encoded
                         THEN DecodeString(request.body)
                         ELSE [bytes |-> request.body, err |-> Nil])

----------------------------------------------------------------------------
(* The state machine.                                                      *)

\* a frame of the call stack: the layer of the handler that runs, the
\* context and request it was called with, and whether it is waiting for
\* next to return
Frame(layer, ctx, request) ==
    [layer |-> layer, ctx |-> ctx, req |-> request, waiting |-> FALSE]

Top == stack[Len(stack)]

Layer == handler[Top.layer]

Running(kind) ==
    /\ pc = "running"
    /\ stack # <<>>
    /\ Layer.kind = kind

Entering(kind) == Running(kind) /\ ~Top.waiting

Resuming(kind) == Running(kind) /\ Top.waiting

\* history events: a handler calls next with a context and a request, or
\* returns a response and an error
CallEvent(who, ctx, request) ==
    [ev |-> "pre", layer |-> Len(stack), who |-> who, ctx |-> ctx,
     req |-> request]

ReturnEvent(ev, who, r) ==
    [ev |-> ev, layer |-> Len(stack), who |-> who, ret |-> r]

\* the running frame calls next(ctx, request)
CallNext(ctx, request) ==
    Append([stack EXCEPT ![Len(stack)].waiting = TRUE],
           Frame(Top.layer + 1, ctx, request))

\* the running frame returns
Pop == SubSeq(stack, 1, Len(stack) - 1)

PcAfterReturn == IF Len(stack) = 1 THEN "done" ELSE "running"

\* the records a handler body has handed to its logger, as history events
LogEvents(d) ==
    IF "logs" \in DOMAIN d
    THEN [i \in 1..Len(d.logs) |->
            [ev |-> "log", layer |-> Len(stack), who |-> Layer.tag,
             rec |-> d.logs[i]]]
    ELSE <<>>

\* the running handler body ends as decided: it calls next, or it returns
\* a response and error: "reject" when it had not called next, "post"
\* when next had returned to it
Decide(d) ==
    /\ ctxs' = IF "ctxs" \in DOMAIN d THEN d.ctxs ELSE ctxs
    /\ IF d.callNext
       THEN /\ stack' = CallNext(d.ctx, d.req)
            /\ trace' = Append(trace \o LogEvents(d),
                               CallEvent(Layer.tag, d.ctx, d.req))
            /\ UNCHANGED <<ret, pc>>
       ELSE /\ ret' = [resp |-> d.resp, err |-> d.err]
            /\ trace' = Append(trace \o LogEvents(d),
                               ReturnEvent(IF Top.waiting THEN "post"
                                           ELSE "reject", Layer.tag, ret'))
            /\ stack' = Pop
            /\ pc' = PcAfterReturn

\* return next(ctx, request): the running frame hands on what next returned
ReturnNext(kind) ==
    /\ Resuming(kind)
    /\ trace' = Append(trace, ReturnEvent("post", Layer.tag, ret))
    /\ stack' = Pop
    /\ pc' = PcAfterReturn
    /\ UNCHANGED <<built, ret, ctxs, inbound>>

InitBuild ==
    /\ arrays = <<>>
    /\ chains = <<>>
    /\ declared = <<>>
    /\ parent = <<>>
    /\ handler = <<>>
    /\ composedOf = 0
    /\ pc = "build"
    /\ stack = <<>>
    /\ ret = [resp |-> EmptyResponse, err |-> Nil]
    /\ trace = <<>>

InitCommon ==
    /\ InitBuild
    /\ ctxs = <<>>

\* the contexts a caller invokes a handler with: Background, one that binds
\* a key of the caller's, and one derived from it that binds the default
\* key of the identifier middlewares
CallerKey == Named("main.traceKey", "trace")

CallerContexts ==
    WithValue(WithValue(<<>>, Background, CallerKey,
                        StringValue("trace-1")).ctxs,
              1, CtxKey, StringValue("caller-id")).ctxs

InitCaller ==
    /\ InitBuild
    /\ ctxs = CallerContexts
    /\ inbound \in [ctx : {Background} \cup (1..Len(CallerContexts)),
                     req : {EmptyRequest}]

\* chain := NewChain(ms...)
DoNewChain(universe, n) ==
    /\ pc = "build"
    /\ chains = <<>>
    /\ \E ms \in SeqsUpTo(universe, n) :
         LET r == NewChain(arrays, ms)
         IN  /\ arrays' = r.arrays
             /\ chains' = Append(chains, r.chain)
             /\ declared' = Append(declared, ms)
             /\ parent' = Append(parent, 0)
    /\ UNCHANGED <<handler, composedOf, pc, stack, ret, trace, ctxs, inbound>>

\* chain2 := chains[k].Then(mw)
DoThen(universe) ==
    /\ pc = "build"
    /\ Len(chains) < MaxChains
    /\ \E k \in 1..Len(chains), mw \in universe :
         LET r == Then(arrays, chains[k], mw)
         IN  /\ arrays' = r.arrays
             /\ chains' = Append(chains, r.chain)
             /\ declared' = Append(declared, Append(declared[k], mw))
             /\ parent' = Append(parent, k)
    /\ UNCHANGED <<handler, composedOf, pc, stack, ret, trace, ctxs, inbound>>

\* handler := chains[k].HandlerFunc(final)
DoHandlerFunc(finals) ==
    /\ pc = "build"
    /\ \E k \in 1..Len(chains), final \in finals :
         /\ handler' = HandlerFunc(arrays, chains[k], final)
         /\ composedOf' = k
    /\ pc' = "ready"
    /\ UNCHANGED <<arrays, chains, declared, parent, stack, ret, trace, ctxs,
                   inbound>>

\* handler := Use(final, ms...)
DoUse(universe, n, finals) ==
    /\ pc = "build"
    /\ chains = <<>>
    /\ \E ms \in SeqsUpTo(universe, n), final \in finals :
         LET r == Use(arrays, final, ms)
         IN  /\ arrays' = r.arrays
             /\ chains' = Append(chains, r.chain)
             /\ declared' = Append(declared, ms)
             /\ parent' = Append(parent, 0)
             /\ handler' = r.handler
             /\ composedOf' = Len(chains) + 1
    /\ pc' = "ready"
    /\ UNCHANGED <<stack, ret, trace, ctxs, inbound>>

\* handler(ctx, request)
Invoke(requests) ==
    /\ pc = "ready"
    /\ \E request \in requests :
         /\ stack' = <<Frame(1, inbound.ctx, request)>>
         /\ inbound' = [inbound EXCEPT !.req = request]
    /\ pc' = "running"
    /\ UNCHANGED <<built, ret, trace, ctxs>>

\* mw(tag), before next: callOrder = append(callOrder, tag+"_pre"); next(ctx, req)
TagPre ==
    /\ Entering("tag")
    /\ trace' = Append(trace, CallEvent(Layer.tag, Top.ctx, Top.req))
    /\ stack' = CallNext(Top.ctx, Top.req)
    /\ UNCHANGED <<built, pc, ret, ctxs, inbound>>

\* mw(tag), after next: callOrder = append(callOrder, tag+"_post"); return resp, err
TagPost ==
    /\ Resuming("tag")
    /\ trace' = Append(trace, ReturnEvent("post", Layer.tag, ret))
    /\ stack' = Pop
    /\ pc' = PcAfterReturn
    /\ UNCHANGED <<built, ret, ctxs, inbound>>

\* the responses and errors a terminal handler returns
FinalOutcomes ==
    { [resp |-> [statusCode |-> StatusOK, headers |-> <<>>,
                 body |-> <<"O", "K">>],
       err |-> Nil],
      [resp |-> EmptyResponse, err |-> "handler failed"] }

\* the terminal handler runs and returns
FinalCall ==
    /\ Entering("final")
    /\ \E out \in FinalOutcomes : ret' = out
    /\ trace' = Append(trace, [ev |-> "h", layer |-> Len(stack),
                               who |-> Layer.tag, ctx |-> Top.ctx,
                               req |-> Top.req, ret |-> ret'])
    /\ stack' = Pop
    /\ pc' = PcAfterReturn
    /\ UNCHANGED <<built, ctxs, inbound>>

\* the default handler: return events.APIGatewayProxyResponse{}, errors.New(...)
DefaultCall ==
    /\ Entering("default")
    /\ ret' = [resp |-> EmptyResponse, err |-> "no handler provided"]
    /\ trace' = Append(trace, [ev |-> "h", layer |-> Len(stack),
                               who |-> Layer.tag, ctx |-> Top.ctx,
                               req |-> Top.req, ret |-> ret'])
    /\ stack' = Pop
    /\ pc' = PcAfterReturn
    /\ UNCHANGED <<built, ctxs, inbound>>

\* the handler of AllowContentType, up to its return or its call of next
GateEnter ==
    /\ Entering("gate")
    /\ Decide(AllowContentTypeHandler(Layer, Top.ctx, Top.req))
    /\ UNCHANGED <<built, inbound>>

\* the handler of AllowContentType: return next(ctx, request)
GateReturn == ReturnNext("gate")

\* the handler of RequestID, up to its call of next
RequestIDEnter ==
    /\ Entering("requestid")
    /\ Decide(RequestIDHandler(Layer, ctxs, Top.ctx, Top.req))
    /\ UNCHANGED <<built, inbound>>

\* the handler of RequestID: return next(ctxWithReqID, request)
RequestIDReturn == ReturnNext("requestid")

\* the handler of ExtendedRequestID, up to its call of next
ExtendedRequestIDEnter ==
    /\ Entering("extendedrequestid")
    /\ Decide(ExtendedRequestIDHandler(Layer, ctxs, Top.ctx, Top.req))
    /\ UNCHANGED <<built, inbound>>

\* the handler of ExtendedRequestID: return next(ctxWithReqID, request)
ExtendedRequestIDReturn == ReturnNext("extendedrequestid")

\* time.Since(start): the time next took, in ticks of the clock
Durations == 0..MaxDuration

\* the handler of StructuredLogger, up to its call of next
LoggerEnter ==
    /\ Entering("logger")
    /\ Decide(StructuredLoggerHandler(Layer, Top.ctx, Top.req))
    /\ UNCHANGED <<built, inbound>>

\* the handler of StructuredLogger, from the return of next to its own
LoggerReturn ==
    /\ Resuming("logger")
    /\ \E duration \in Durations :
         Decide(StructuredLoggerReturn(Layer, Top.ctx, Top.req, ret.resp,
                                       ret.err, duration))
    /\ UNCHANGED <<built, inbound>>

\* the handler of Validate[T], up to its return or its call of next
ValidateEnter ==
    /\ Entering("validate")
    /\ Decide(ValidateHandler(Layer, ctxs, Top.ctx, Top.req))
    /\ UNCHANGED <<built, inbound>>

\* the handler of Validate[T]: return next(ctxWithData, request)
ValidateReturn == ReturnNext("validate")

\* the terminal handler of the GetReqID tests: actualReqID := GetReqID(ctx),
\* then a response with StatusOK
MockHandlerCall ==
    /\ Entering("getreqid")
    /\ ret' = [resp |-> [statusCode |-> StatusOK, headers |-> <<>>,
                         body |-> <<>>],
               err |-> Nil]
    /\ trace' = Append(trace, [ev |-> "h", layer |-> Len(stack),
                               who |-> Layer.tag, ctx |-> Top.ctx,
                               req |-> Top.req, ret |-> ret',
                               actualReqID |-> GetReqID(ctxs, Top.ctx)])
    /\ stack' = Pop
    /\ pc' = PcAfterReturn
    /\ UNCHANGED <<built, ctxs, inbound>>

----------------------------------------------------------------------------
(* The Chain engine under the instrumented middlewares of its tests.       *)

InitChain ==
    /\ InitCommon
    /\ inbound = [ctx |-> Background, req |-> EmptyRequest]

NextChain ==
    \/ DoNewChain(TagMiddlewares, MaxNewChainLen)
    \/ DoThen(TagMiddlewares)
    \/ DoHandlerFunc({FinalHandler, NilHandler})
    \/ Invoke({EmptyRequest})
    \/ TagPre
    \/ TagPost
    \/ FinalCall
    \/ DefaultCall

SpecChain == InitChain /\ [][NextChain]_vars

----------------------------------------------------------------------------
(* Use under the instrumented middlewares of its test.                     *)

\* the requests a handler composed by Use is invoked with
UseRequests ==
    {EmptyRequest, [EmptyRequest EXCEPT !.body = <<"o", "k">>]}

NextUse ==
    \/ DoUse(TagMiddlewares, MaxNewChainLen, {FinalHandler, NilHandler})
    \/ Invoke(UseRequests)
    \/ TagPre
    \/ TagPost
    \/ FinalCall
    \/ DefaultCall

SpecUse == InitChain /\ [][NextUse]_vars

----------------------------------------------------------------------------
(* AllowContentType under the content types of its tests.                  *)

AppJson == <<"a", "p", "p", "l", "i", "c", "a", "t", "i", "o", "n", "/", "j", "s", "o", "n">>

AppJsonCharset == <<"a", "p", "p", "l", "i", "c", "a", "t", "i", "o", "n", "/", "j", "s", "o", "n", ";", " ", "c", "h", "a", "r", "s", "e", "t", "=", "u", "t", "f", "-", "8">>

AppJsonUpper == <<"A", "p", "p", "l", "i", "c", "a", "t", "i", "o", "n", "/", "J", "S", "O", "N">>

AppJsonUpperCharset == <<"A", "p", "p", "l", "i", "c", "a", "t", "i", "o", "n", "/", "J", "S", "O", "N", ";", " ", "C", "h", "a", "r", "s", "e", "t", "=", "U", "T", "F", "-", "8">>

AppJsonPadded == <<" ", "a", "p", "p", "l", "i", "c", "a", "t", "i", "o", "n", "/", "j", "s", "o", "n", " ", ";", "c", "h", "a", "r", "s", "e", "t", "=", "u", "t", "f", "-", "8">>

AppJsonSemicolon == <<"a", "p", "p", "l", "i", "c", "a", "t", "i", "o", "n", "/", "j", "s", "o", "n", ";">>

AppXml == <<"a", "p", "p", "l", "i", "c", "a", "t", "i", "o", "n", "/", "x", "m", "l">>

TextXml == <<"t", "e", "x", "t", "/", "x", "m", "l">>

TextPlain == <<"t", "e", "x", "t", "/", "p", "l", "a", "i", "n">>

\* a single token: mime.ParseMediaType takes it for a media type
InvalidType == <<"i", "n", "v", "a", "l", "i", "d", "-", "t", "y", "p", "e">>

\* no subtype after the slash: mime.ParseMediaType fails
NoSubtype == <<"a", "p", "p", "l", "i", "c", "a", "t", "i", "o", "n", "/">>

\* a parameter without a value: mime.ParseMediaType fails
NoParamValue == <<"a", "p", "p", "l", "i", "c", "a", "t", "i", "o", "n", "/", "j", "s", "o", "n", ";", " ", "c", "h", "a", "r", "s", "e", "t">>

\* two media types in one value: mime.ParseMediaType fails
TwoTypes == <<"a", "p", "p", "l", "i", "c", "a", "t", "i", "o", "n", "/", "j", "s", "o", "n", ",", " ", "t", "e", "x", "t", "/", "x", "m", "l">>

\* a custom error body
OnlyJsonBody == <<"o", "n", "l", "y", " ", "J", "S", "O", "N">>

GateAllowLists ==
    { <<>>, <<AppJson>>, <<AppJson, AppXml>>, <<AppJsonUpperCharset>>,
      <<NoSubtype, TextXml>>, <<AppJson, InvalidType>> }

GateOptionLists ==
    { <<>>, <<WithResponse(AppJson, OnlyJsonBody)>> }

GateMiddlewares ==
    { AllowContentType(a, o) : a \in GateAllowLists, o \in GateOptionLists }

ContentTypeValues ==
    { AppJson, AppJsonCharset, AppJsonUpper, AppJsonPadded, AppJsonSemicolon,
      AppXml, TextXml, TextPlain, InvalidType, NoSubtype, NoParamValue,
      TwoTypes }

\* createRequest(contentType): the header is set when contentType is not ""
createRequest(contentType) ==
    [EmptyRequest EXCEPT !.headers =
        IF contentType = <<>> THEN <<>>
        ELSE [n \in {CanonicalHeaderKey(ContentTypeName)} |-> contentType]]

\* a request whose Content-Type header is present and empty
EmptyHeaderRequest ==
    [EmptyRequest EXCEPT !.headers = [n \in {ContentTypeName} |-> <<>>]]

GateRequests ==
    {createRequest(v) : v \in ContentTypeValues \cup {<<>>}}
    \cup {EmptyHeaderRequest}

InitGate ==
    /\ InitCommon
    /\ inbound = [ctx |-> Background, req |-> EmptyRequest]

NextGate ==
    \/ DoNewChain(GateMiddlewares, MaxNewChainLen)
    \/ DoHandlerFunc({FinalHandler})
    \/ Invoke(GateRequests)
    \/ GateEnter
    \/ GateReturn
    \/ FinalCall

SpecGate == InitGate /\ [][NextGate]_vars

----------------------------------------------------------------------------
(* AllowContentType under requests whose header name is written in the     *)
(* ways clients and gateways write it.                                     *)

\* the header name as written by the tests, in lower case and in upper case
HeaderNames ==
    { ContentTypeName,
      <<"c", "o", "n", "t", "e", "n", "t", "-", "t", "y", "p", "e">>,
      <<"C", "O", "N", "T", "E", "N", "T", "-", "T", "Y", "P", "E">> }

\* events.APIGatewayProxyRequest{Headers: map[string]string{name: value}}
requestWithHeader(name, value) ==
    [EmptyRequest EXCEPT !.headers = [n \in {name} |-> value]]

HeaderNameRequests ==
    { requestWithHeader(n, v) :
        n \in HeaderNames, v \in {AppJson, AppJsonCharset, TextXml} }

NextHeaderName ==
    \/ DoNewChain(GateMiddlewares, MaxNewChainLen)
    \/ DoHandlerFunc({FinalHandler})
    \/ Invoke(HeaderNameRequests)
    \/ GateEnter
    \/ GateReturn
    \/ FinalCall

SpecHeaderName == InitGate /\ [][NextHeaderName]_vars

----------------------------------------------------------------------------
(* RequestID and ExtendedRequestID under the keys and identifiers of their *)
(* tests.                                                                  *)

\* customCtxKey{}, firstCtxKey{}, secondCtxKey{}
CustomCtxKey == Named("customCtxKey", "")

FirstCtxKey == Named("firstCtxKey", "")

SecondCtxKey == Named("secondCtxKey", "")

RequestIDOptionLists ==
    { <<>>,
      <<WithCtxKey(CustomCtxKey)>>,
      <<WithCtxKey(FirstCtxKey), WithCtxKey(SecondCtxKey)>> }

RequestIDMiddlewares ==
    {RequestID(o) : o \in RequestIDOptionLists}
    \cup {ExtendedRequestID(o) : o \in RequestIDOptionLists}

\* requests with and without the identifiers of the request context
RequestIDRequests ==
    { [EmptyRequest EXCEPT !.requestID = id, !.extendedRequestID = ext] :
        id \in {"", "test-request-id-123"},
        ext \in {"", "test-extended-request-id-456"} }

NextRequestID ==
    \/ DoNewChain(RequestIDMiddlewares, MaxNewChainLen)
    \/ DoHandlerFunc({FinalHandler})
    \/ Invoke(RequestIDRequests)
    \/ RequestIDEnter
    \/ RequestIDReturn
    \/ ExtendedRequestIDEnter
    \/ ExtendedRequestIDReturn
    \/ FinalCall

SpecRequestID == InitCaller /\ [][NextRequestID]_vars

----------------------------------------------------------------------------
(* StructuredLogger under the requests and handlers of its tests.          *)

LoggerOptionLists ==
    { <<>>,
      <<WithRequestBodyLogging(TRUE)>>,
      <<WithLogger("custom"), WithResponseBodyLogging(TRUE)>>,
      <<WithRequestBodyLogging(TRUE), WithResponseBodyLogging(TRUE)>>,
      <<WithRequestBodyLogging(TRUE), WithResponseBodyLogging(TRUE),
        WithRequestBodyLogging(FALSE)>> }

LoggerMiddlewares == {StructuredLogger(o) : o \in LoggerOptionLists}

World == <<"W", "o", "r", "l", "d">>

LoggerRequests ==
    { [EmptyRequest EXCEPT !.body = World,
                           !.requestID = "integration-test-id"],
      [EmptyRequest EXCEPT !.requestID = "test-request-id"] }

NextLogger ==
    \/ DoNewChain(LoggerMiddlewares, MaxNewChainLen)
    \/ DoHandlerFunc({FinalHandler})
    \/ Invoke(LoggerRequests)
    \/ LoggerEnter
    \/ LoggerReturn
    \/ FinalCall

SpecLogger == InitCaller /\ [][NextLogger]_vars

----------------------------------------------------------------------------
(* Validate under the types and bodies of its tests.                       *)

ValidUserJson == <<"{", "\"", "n", "a", "m", "e", "\"", ":", "\"", "A", "l", "\"", ",", "\"", "e", "m", "a", "i", "l", "\"", ":", "\"", "a", "@", "b", ".", "c", "\"", ",", "\"", "a", "g", "e", "\"", ":", "3", "0", "}">>

InvalidUserJson == <<"{", "\"", "n", "a", "m", "e", "\"", ":", "\"", "\"", ",", "\"", "e", "m", "a", "i", "l", "\"", ":", "\"", "b", "a", "d", "\"", ",", "\"", "a", "g", "e", "\"", ":", "1", "5", "0", "}">>

\* a comma before the closing brace: not JSON
TrailingCommaJson == <<"{", "\"", "n", "a", "m", "e", "\"", ":", "\"", "A", "l", "\"", ",", "\"", "e", "m", "a", "i", "l", "\"", ":", "\"", "a", "@", "b", ".", "c", "\"", ",", "\"", "a", "g", "e", "\"", ":", "3", "0", ",", "}">>

ShouldFailJson == <<"{", "\"", "n", "a", "m", "e", "\"", ":", "\"", "A", "l", "\"", ",", "\"", "e", "m", "a", "i", "l", "\"", ":", "\"", "a", "@", "b", ".", "c", "\"", ",", "\"", "a", "g", "e", "\"", ":", "3", "0", ",", "\"", "s", "h", "o", "u", "l", "d", "F", "a", "i", "l", "\"", ":", "t", "r", "u", "e", "}">>

ValidUserXml ==
    <<"<", "T", "e", "s", "t", "U", "s", "e", "r", ">", "<", "n", "a", "m", "e", ">", "A", "l", "<", "/", "n", "a", "m", "e", ">", "<", "e", "m", "a", "i", "l", ">", "a", "@", "b", ".", "c", "<", "/", "e", "m", "a", "i", "l", ">", "<", "a", "g", "e", ">", "3", "0", "<", "/", "a", "g", "e", ">", "<", "/", "T", "e", "s", "t", "U", "s", "e", "r", ">">>

\* an element that is not closed: not XML
InvalidXml == <<"<", "T", "e", "s", "t", "U", "s", "e", "r", ">", "<", "n", "a", "m", "e", ">", "A", "l", "<", "n", "a", "m", "e", ">", "<", "e", "m", "a", "i", "l", ">", "a", "@", "b", ".", "c", "<", "/", "e", "m", "a", "i", "l", ">", "<", "/", "T", "e", "s", "t", "U", "s", "e", "r", ">">>

NotBase64 == <<"T", "h", "i", "s", " ", "i", "s", " ", "n", "o", "t", " ", "b", "a", "s", "e", "6", "4", "!", "!", "!">>

TestCtxKey(s) == Named("TestCtxKey", s)

CustomErrorBody == <<"{", "\"", "e", "r", "r", "o", "r", "\"", ":", "\"", "V", "a", "l", "i", "d", "a", "t", "i", "o", "n", " ", "f", "a", "i", "l", "e", "d", "\"", "}">>

ValidateTypes ==
    {"TestUser", "TestUserWithUnmarshaler", "TestUserWithValidator",
     "TestUserWithCustomAll"}

ValidateOptionLists ==
    { <<>>,
      <<validateWithCtxKey(TestCtxKey("user")),
        validateWithResponse(AppJson, CustomErrorBody)>> }

ValidateMiddlewares ==
    {Validate(T, o) : T \in ValidateTypes, o \in ValidateOptionLists}

ValidateRequests ==
    { [EmptyRequest EXCEPT !.body = b] :
        b \in {<<>>, ValidUserJson, InvalidUserJson, TrailingCommaJson,
               ShouldFailJson, ValidUserXml, InvalidXml} }
    \cup
    { [EmptyRequest EXCEPT !.body = b, !.isBase64Encoded = TRUE] :
        b \in {EncodeToString(ValidUserJson), EncodeToString(ValidUserXml),
               EncodeToString(InvalidUserJson), NotBase64} }

NextValidate ==
    \/ DoNewChain(ValidateMiddlewares, MaxNewChainLen)
    \/ DoHandlerFunc({FinalHandler})
    \/ Invoke(ValidateRequests)
    \/ ValidateEnter
    \/ ValidateReturn
    \/ FinalCall

SpecValidate == InitCaller /\ [][NextValidate]_vars

----------------------------------------------------------------------------
(* Validate[T] of each type of the tests, on the bodies above and on the   *)
(* empty body flagged as base64.                                           *)

BodyMiddlewares ==
    { Validate("TestUser", <<>>),
      Validate("TestUserWithUnmarshaler", <<>>),
      Validate("TestUserWithValidator", <<>>),
      Validate("TestUserWithCustomAll", <<>>),
      Validate("TestUser", <<validateWithCtxKey(TestCtxKey("user")),
                             validateWithResponse(AppJson,
                                                  CustomErrorBody)>>) }

BodyRequests ==
    ValidateRequests \cup { [EmptyRequest EXCEPT !.isBase64Encoded = TRUE] }

NextBody ==
    \/ DoNewChain(BodyMiddlewares, MaxNewChainLen)
    \/ DoHandlerFunc({FinalHandler})
    \/ Invoke(BodyRequests)
    \/ ValidateEnter
    \/ ValidateReturn
    \/ FinalCall

SpecBody == InitCaller /\ [][NextBody]_vars

----------------------------------------------------------------------------
(* Chains of the provided middlewares around a terminal handler.           *)

\* one middleware of each provided kind, Validate for two types
ProvidedMiddlewares ==
    { AllowContentType(<<AppJson>>, <<>>),
      RequestID(<<>>),
      ExtendedRequestID(<<>>),
      StructuredLogger(<<>>),
      Validate("TestUser", <<>>),
      Validate("TestUserWithValidator",
               <<validateWithCtxKey(TestCtxKey("user"))>>) }

\* requests of an API Gateway: a JSON user, the same sent as text/xml, and
\* a user that validation does not admit
MwRequests ==
    { [createRequest(ct) EXCEPT !.body = b, !.requestID = "req-1",
                                !.extendedRequestID = "ext-1"] :
        ct \in {AppJson, TextXml}, b \in {ValidUserJson, InvalidUserJson} }

NextMw ==
    \/ DoNewChain(ProvidedMiddlewares, MaxMwChainLen)
    \/ DoHandlerFunc({FinalHandler})
    \/ Invoke(MwRequests)
    \/ GateEnter
    \/ GateReturn
    \/ RequestIDEnter
    \/ RequestIDReturn
    \/ ExtendedRequestIDEnter
    \/ ExtendedRequestIDReturn
    \/ LoggerEnter
    \/ LoggerReturn
    \/ ValidateEnter
    \/ ValidateReturn
    \/ FinalCall

SpecMw == InitCaller /\ [][NextMw]_vars

----------------------------------------------------------------------------
(* The middlewares that take options, built with no option, one option and *)
(* two options that set the same field.                                    *)

\* two custom responses
FirstResponse == <<AppJson, OnlyJsonBody>>

SecondResponse == <<TextXml, CustomErrorBody>>

OptionMiddlewares ==
    { RequestID(<<>>),
      RequestID(<<WithCtxKey(FirstCtxKey)>>),
      RequestID(<<WithCtxKey(FirstCtxKey), WithCtxKey(SecondCtxKey)>>),
      RequestID(<<WithCtxKey(SecondCtxKey), WithCtxKey(FirstCtxKey)>>) }
    \cup
    { AllowContentType(<<AppJson>>, o) :
        o \in { <<>>,
                <<WithResponse(FirstResponse[1], FirstResponse[2])>>,
                <<WithResponse(FirstResponse[1], FirstResponse[2]),
                  WithResponse(SecondResponse[1], SecondResponse[2])>>,
                <<WithResponse(SecondResponse[1], SecondResponse[2]),
                  WithResponse(FirstResponse[1], FirstResponse[2])>> } }
    \cup
    { Validate("TestUser", o) :
        o \in { <<>>,
                <<validateWithResponse(FirstResponse[1], FirstResponse[2])>>,
                <<validateWithResponse(FirstResponse[1], FirstResponse[2]),
                  validateWithCtxKey(FirstCtxKey),
                  validateWithResponse(SecondResponse[1], SecondResponse[2])>>,
                <<validateWithResponse(SecondResponse[1], SecondResponse[2]),
                  validateWithResponse(FirstResponse[1], FirstResponse[2])>> } }

NextOptions ==
    \/ DoNewChain(OptionMiddlewares, MaxNewChainLen)
    \/ DoHandlerFunc({FinalHandler})
    \/ Invoke(MwRequests)
    \/ GateEnter
    \/ GateReturn
    \/ RequestIDEnter
    \/ RequestIDReturn
    \/ ValidateEnter
    \/ ValidateReturn
    \/ FinalCall

SpecOptions == InitCaller /\ [][NextOptions]_vars

----------------------------------------------------------------------------
(* GetReqID read by a terminal handler behind middleware.RequestID.        *)

\* the contexts of a caller: Background, one that binds a key of the
\* caller's, one derived from it in which reqIDKey{} holds a value that is
\* not a string, and one in which it holds a string
ReqIDContexts ==
    << [parent |-> Background, key |-> CallerKey,
        val |-> StringValue("trace-1")],
       [parent |-> 1, key |-> reqIDKey, val |-> Named("int", "42")],
       [parent |-> Background, key |-> reqIDKey,
        val |-> StringValue("caller-id")] >>

InitGetReqID ==
    /\ InitBuild
    /\ ctxs = ReqIDContexts
    /\ inbound \in [ctx : {Background} \cup (1..Len(ReqIDContexts)),
                     req : {EmptyRequest}]

\* tt.inputRequestID: "test-request-id-123" and ""
GetReqIDRequests ==
    { [EmptyRequest EXCEPT !.requestID = id] :
        id \in {"", "test-request-id-123"} }

\* RequestID among the instrumented middlewares of the Chain tests
GetReqIDMiddlewares ==
    {middlewareRequestID, TagMiddleware("m1"), TagMiddleware("m2")}

NextGetReqID ==
    \/ DoNewChain(GetReqIDMiddlewares, MaxNewChainLen)
    \/ DoHandlerFunc({MockHandler})
    \/ Invoke(GetReqIDRequests)
    \/ TagPre
    \/ TagPost
    \/ RequestIDEnter
    \/ RequestIDReturn
    \/ MockHandlerCall

SpecGetReqID == InitGetReqID /\ [][NextGetReqID]_vars

----------------------------------------------------------------------------
(* Validate for the types that are decoded by a codec, under the bodies of *)
(* the tests of determineContentType.                                      *)

Spaces == <<" ", " ", " ">>

\* `[1, 2, 3]`
JsonArray == <<"[", "1", ",", " ", "2", ",", " ", "3", "]">>

\* `Hello, world!`
UnknownFormat ==
    <<"H", "e", "l", "l", "o", ",", " ", "w", "o", "r", "l", "d", "!">>

\* bodies that start with "{", "[", "<", white space and another character;
\* the last is an XML document behind text
CodecBodies ==
    { ValidUserJson, InvalidUserJson, TrailingCommaJson, JsonArray,
      ValidUserXml, InvalidXml, Spaces, Spaces \o ValidUserJson,
      Spaces \o ValidUserXml, UnknownFormat, UnknownFormat \o ValidUserXml }

CodecRequests ==
    { [EmptyRequest EXCEPT !.body = b] : b \in CodecBodies }
    \cup
    { [EmptyRequest EXCEPT !.body = EncodeToString(b),
                           !.isBase64Encoded = TRUE] :
        b \in {ValidUserXml, Spaces, UnknownFormat \o ValidUserXml} }

CodecMiddlewares ==
    { Validate("TestUser", <<>>), Validate("TestUserWithValidator", <<>>),
      Validate("TestUser", <<validateWithCtxKey(TestCtxKey("user"))>>) }

NextCodec ==
    \/ DoNewChain(CodecMiddlewares, MaxNewChainLen)
    \/ DoHandlerFunc({FinalHandler})
    \/ Invoke(CodecRequests)
    \/ ValidateEnter
    \/ ValidateReturn
    \/ FinalCall

SpecCodec == InitCaller /\ [][NextCodec]_vars

----------------------------------------------------------------------------
(* NewChain called with a slice of the caller's, which the caller goes on  *)
(* to write, and the Chain composed with one terminal handler after        *)
(* another.                                                                *)

\* the caller's slice: the first array of the heap, all of it
CallerSlice == Slice(1, Len(arrays[1]))

\* the slices a caller makes: ms := []MiddlewareFunc{...}
InitSlice ==
    /\ arrays \in {<<ms>> : ms \in SeqsUpTo(TagMiddlewares, MaxNewChainLen)}
    /\ chains = <<>>
    /\ declared = <<>>
    /\ parent = <<>>
    /\ handler = <<>>
    /\ composedOf = 0
    /\ pc = "build"
    /\ stack = <<>>
    /\ ret = [resp |-> EmptyResponse, err |-> Nil]
    /\ trace = <<>>
    /\ ctxs = <<>>
    /\ inbound = [ctx |-> Background, req |-> EmptyRequest]

\* chain := NewChain(ms...)
DoNewChainSpread ==
    /\ pc = "build"
    /\ chains = <<>>
    /\ LET r == NewChainSpread(arrays, CallerSlice)
       IN  /\ arrays' = r.arrays
           /\ chains' = <<r.chain>>
           /\ declared' = <<Middlewares(arrays, CallerSlice)>>
           /\ parent' = <<0>>
    /\ UNCHANGED <<handler, composedOf, pc, stack, ret, trace, ctxs, inbound>>

\* ms[i] = mw, after NewChain has returned
ReplaceInCallerSlice ==
    /\ chains # <<>>
    /\ pc \in {"build", "ready"}
    /\ \E i \in 1..Len(arrays[1]), mw \in TagMiddlewares :
         /\ arrays[1][i] # mw
         /\ arrays' = [arrays EXCEPT ![1][i] = mw]
    /\ UNCHANGED <<chains, declared, parent, handler, composedOf, pc, stack,
                   ret, trace, ctxs, inbound>>

\* ms[i], ms[j] = ms[j], ms[i], after NewChain has returned
ReorderCallerSlice ==
    /\ chains # <<>>
    /\ pc \in {"build", "ready"}
    /\ \E i, j \in 1..Len(arrays[1]) :
         /\ arrays[1][i] # arrays[1][j]
         /\ arrays' = [arrays EXCEPT ![1][i] = arrays[1][j],
                                     ![1][j] = arrays[1][i]]
    /\ UNCHANGED <<chains, declared, parent, handler, composedOf, pc, stack,
                   ret, trace, ctxs, inbound>>

\* the invocations the history holds
Invocations ==
    Cardinality({i \in 1..Len(trace) : trace[i].ev = "h"})

\* the caller goes on to compose the Chain with another terminal handler
ComposeAgain ==
    /\ pc = "done"
    /\ Invocations < MaxCompositions
    /\ pc' = "build"
    /\ UNCHANGED <<built, stack, ret, trace, ctxs, inbound>>

NextSlice ==
    \/ DoNewChainSpread
    \/ ReplaceInCallerSlice
    \/ ReorderCallerSlice
    \/ DoHandlerFunc({FinalHandler, NilHandler})
    \/ Invoke({EmptyRequest})
    \/ TagPre
    \/ TagPost
    \/ FinalCall
    \/ DefaultCall
    \/ ComposeAgain

SpecSlice == InitSlice /\ [][NextSlice]_vars

----------------------------------------------------------------------------
(* A caller that writes the Headers of the responses it gets and invokes   *)
(* the handler again.  events.APIGatewayProxyResponse is a struct, copied  *)
(* when it is returned; its Headers field is a map, which the copy shares  *)
(* with the errorResponse the closure holds.  The map is kept in the       *)
(* closure's record, and the caller writes it through the response.        *)

HeaderMiddlewares ==
    { AllowContentType(<<AppJson>>, <<>>),
      AllowContentType(<<AppJson>>, <<WithResponse(AppJson, OnlyJsonBody)>>),
      Validate("TestUser", <<>>) }

\* the invocations that have returned to the caller
Returned ==
    Cardinality({i \in 1..Len(trace) :
                   trace[i].layer = 1 /\ trace[i].ev # "pre"})

\* the layer whose rejection made the response the caller holds, 0 when the
\* response is the terminal handler's
RejectedBy ==
    IF trace # <<>> /\ trace[Len(trace)].ev = "reject"
    THEN trace[Len(trace)].layer
    ELSE IF \E i \in 1..Len(trace) :
              /\ trace[i].ev = "reject"
              /\ \A j \in (i + 1)..Len(trace) :
                   trace[j].ev = "post" /\ trace[j].layer < trace[i].layer
    THEN (CHOOSE i \in 1..Len(trace) :
              /\ trace[i].ev = "reject"
              /\ \A j \in (i + 1)..Len(trace) :
                   trace[j].ev = "post" /\ trace[j].layer < trace[i].layer)
    ELSE 0

\* m[key] = value
MapPut(m, key, value) ==
    [k \in DOMAIN m \cup {key} |-> IF k = key THEN value ELSE m[k]]

\* resp.Headers["Content-Type"] = value, on the response of a rejection
CallerWritesHeaders ==
    /\ pc = "done"
    /\ RejectedBy # 0
    /\ \E value \in {AppJson, TextXml} :
         LET written == MapPut(ret.resp.headers, ContentTypeName, value)
         IN  /\ written # ret.resp.headers
             /\ ret' = [ret EXCEPT !.resp.headers = written]
             /\ handler' = [handler EXCEPT
                              ![RejectedBy].errorResponse.headers = written]
    /\ UNCHANGED <<arrays, chains, declared, parent, composedOf, pc, stack,
                   trace, ctxs, inbound>>

\* the caller invokes the handler once more
InvokeAgain ==
    /\ pc = "done"
    /\ Returned < MaxCompositions
    /\ pc' = "ready"
    /\ UNCHANGED <<built, stack, ret, trace, ctxs, inbound>>

NextHeaders ==
    \/ DoNewChain(HeaderMiddlewares, MaxNewChainLen)
    \/ DoHandlerFunc({FinalHandler})
    \/ Invoke(MwRequests)
    \/ GateEnter
    \/ GateReturn
    \/ ValidateEnter
    \/ ValidateReturn
    \/ FinalCall
    \/ CallerWritesHeaders
    \/ InvokeAgain

SpecHeaders == InitGate /\ [][NextHeaders]_vars

----------------------------------------------------------------------------
(* Claims about the Chain engine, checked under SpecChain.                 *)

\* the call order of one invocation of middlewares ms around a terminal
\* handler: each event's kind, the layer it happened in and, for a
\* middleware, its tag
ExpectedOrder(ms) ==
    LET n == Len(ms)
    IN  [i \in 1..n |-> [ev |-> "pre", layer |-> i, who |-> ms[i].tag]]
        \o <<[ev |-> "h", layer |-> n + 1, who |-> "terminal"]>>
        \o [i \in 1..n |->
              [ev |-> "post", layer |-> n + 1 - i, who |-> ms[n + 1 - i].tag]]

\* the call order observed, the terminal handler's event named alike for the
\* given and the default handler
ObservedOrder ==
    [i \in 1..Len(trace) |->
       [ev |-> trace[i].ev, layer |-> trace[i].layer,
        who |-> IF trace[i].ev = "h" THEN "terminal" ELSE trace[i].who]]

\* C1: a finished invocation of a handler composed of a Chain declared as
\* [m1..mn] has produced exactly m1-pre, ..., mn-pre, h, mn-post, ...,
\* m1-post: the first-declared middleware is outermost.
C1_DeclarationOrder ==
    pc = "done" => ObservedOrder = ExpectedOrder(declared[composedOf])

\* C1 witness: a finished invocation of a three-middleware chain built with
\* NewChain and Then whose middlewares are not all the same
C1_Witness ==
    /\ pc = "done"
    /\ parent[composedOf] # 0
    /\ Len(declared[composedOf]) = 3
    /\ Cardinality(Range(declared[composedOf])) = 2
    /\ Len(trace) = 7

\* C10: every Chain value held reads, through the heap, exactly the sequence
\* it was given when it was made (c.Then(m) is c's sequence followed by m, and
\* no later Then on any chain changes it), and a handler composed from a
\* Chain consists of exactly that sequence around the terminal handler.
C10_ThenLeavesChainUnchanged ==
    /\ \A k \in 1..Len(chains) :
         Middlewares(arrays, chains[k]) = declared[k]
    /\ pc # "build" =>
         SubSeq(handler, 1, Len(handler) - 1) = declared[composedOf]

\* C10 witness: a Chain with two different appends made to it, one of which
\* was appended to again, is composed and invoked afterwards
C10_Witness ==
    /\ pc = "done"
    /\ \E j, k \in 1..Len(chains) :
         /\ j # k
         /\ parent[j] = composedOf
         /\ parent[k] = composedOf
         /\ declared[j] # declared[k]
    /\ \E k \in 1..Len(chains) : parent[k] = composedOf /\ parent[k] # 0
    /\ declared[composedOf] # <<>>

\* what the default handler returns: events.APIGatewayProxyResponse{} and
\* errors.New("no handler provided")
C12_DefaultResult ==
    [resp |-> [statusCode |-> 0, headers |-> <<>>, body |-> <<>>],
     err |-> "no handler provided"]

\* C12: composing with a nil terminal handler puts a default handler in its
\* place that returns an empty response and the error "no handler provided":
\* the handler of an empty chain is callable and returns that; the
\* middlewares of a non-empty chain wrap the default handler in declaration
\* order and each hands the error back.
C12_NilFinalIsDefaultHandler ==
    composedOf # 0 =>
      LET ms == declared[composedOf]
      IN  /\ Len(handler) = Len(ms) + 1
          /\ \A l \in 1..Len(ms) : handler[l] = ms[l]
          /\ handler[Len(handler)].kind \in {"final", "default"}
          /\ handler[Len(handler)].kind = "default" =>
               /\ \A i \in 1..Len(trace) :
                    trace[i].ev \in {"h", "post"} =>
                      trace[i].ret = C12_DefaultResult
               /\ pc = "done" =>
                    /\ ObservedOrder = ExpectedOrder(ms)
                    /\ ret = C12_DefaultResult

\* C12 witness: two middlewares composed with a nil handler have run around
\* the default handler and the caller has received its error
C12_Witness ==
    /\ pc = "done"
    /\ Len(declared[composedOf]) = 2
    /\ handler[3].kind = "default"
    /\ Len(trace) = 5
    /\ trace[3].ev = "h"
    /\ trace[5].ret.err = "no handler provided"
    /\ ret.err = "no handler provided"
    /\ ret.resp.statusCode = 0
----------------------------------------------------------------------------
(* Reading the history of an invocation.                                   *)

\* the middleware declared at a layer of the composed handler
MwAt(layer) == declared[composedOf][layer]

\* the context and request a layer was called with: the caller's for the
\* outermost layer, else what the layer before it passed to next
CalledWith(layer) ==
    IF layer = 1 THEN inbound
    ELSE LET i == CHOOSE i \in 1..Len(trace) :
                    trace[i].ev = "pre" /\ trace[i].layer = layer - 1
         IN  [ctx |-> trace[i].ctx, req |-> trace[i].req]

\* how often a layer called next
CallsOfNext(layer) ==
    Cardinality({i \in 1..Len(trace) :
                   trace[i].ev = "pre" /\ trace[i].layer = layer})

\* the returns of a layer before position i of the history
ReturnsBefore(layer, i) ==
    {k \in 1..(i - 1) :
       trace[k].layer = layer /\ trace[k].ev \in {"post", "reject", "h"}}

\* a "post" event hands on what the layer below has returned, with nothing
\* but log records of its own layer in between
HandsOnResult(i) ==
    LET below == ReturnsBefore(trace[i].layer + 1, i)
        k == CHOOSE k \in below : \A j \in below : j <= k
    IN  /\ below # {}
        /\ \A j \in (k + 1)..(i - 1) :
             trace[j].ev = "log" /\ trace[j].layer = trace[i].layer
        /\ trace[i].ret = trace[k].ret

\* the value of the request's Content-Type header, empty when it has none
ContentTypeOf(request) == MapGet(request.headers, ContentTypeName)

----------------------------------------------------------------------------
(* Claims about AllowContentType, checked under SpecGate.                  *)

\* the condition of C3: a non-empty header value that parses as a media
\* type whose lower-cased media type, parameters stripped, is the media type
\* of an entry of the allow-list
C3_Allowed(mw, request) ==
    LET v == ContentTypeOf(request)
        p == ParseMediaType(ToLower(v))
    IN  /\ v # <<>>
        /\ p.err = Nil
        /\ \E k \in 1..Len(mw.config.allowedTypes) :
             LET a == ParseMediaType(ToLower(mw.config.allowedTypes[k]))
             IN  a.err = Nil /\ a.mediatype = p.mediatype

\* C3: AllowContentType calls next exactly when the request's Content-Type
\* value is allowed, then once, with the context and request it was called
\* with, and hands on what next returned; with allow-list [application/json]
\* it accepts "application/json", "application/json; charset=utf-8" and
\* "Application/JSON" and rejects "text/xml", a missing header and values that
\* do not parse.
C3_CallsNextIffAllowed ==
    \A i \in 1..Len(trace) :
      trace[i].who = "AllowContentType" =>
        LET e == trace[i]
            mw == MwAt(e.layer)
            in == CalledWith(e.layer)
            v == ContentTypeOf(in.req)
        IN  /\ e.ev \in {"pre", "reject", "post"}
            /\ e.ev = "pre" =>
                 /\ C3_Allowed(mw, in.req)
                 /\ e.ctx = in.ctx
                 /\ e.req = in.req
                 /\ CallsOfNext(e.layer) = 1
            /\ e.ev = "reject" => ~C3_Allowed(mw, in.req)
            /\ e.ev = "post" => HandsOnResult(i) /\ CallsOfNext(e.layer) = 1
            /\ mw.config.allowedTypes = <<AppJson>> =>
                 /\ v \in {AppJson, AppJsonCharset, AppJsonUpper} =>
                      e.ev # "reject"
                 /\ v \in {TextXml, <<>>, NoSubtype, NoParamValue, TwoTypes} =>
                      e.ev = "reject"

\* C3 witness: a gate allowing application/json has called next for
\* "Application/JSON" and handed on its result, under a gate that let
\* "Application/JSON" through although written with parameters
C3_Witness ==
    /\ pc = "done"
    /\ Len(trace) = 5
    /\ MwAt(1).config.allowedTypes = <<AppJsonUpperCharset>>
    /\ MwAt(2).config.allowedTypes = <<AppJson>>
    /\ ContentTypeOf(inbound.req) = AppJsonUpper
    /\ trace[5].ev = "post"
    /\ ret.err # Nil

\* the error response an AllowContentType built with options opts is
\* configured to return
C4_Configured(opts) ==
    IF opts = <<>>
    THEN [statusCode |-> 415,
          headers |-> [h \in {<<"C", "o", "n", "t", "e", "n", "t", "-", "T", "y", "p", "e">>} |->
                         <<"t", "e", "x", "t", "/", "p", "l", "a", "i", "n", ";", " ", "c", "h", "a", "r", "s", "e", "t", "=", "u", "t", "f", "-", "8">>],
          body |-> <<"U", "n", "s", "u", "p", "p", "o", "r", "t", "e", "d", " ", "M", "e", "d", "i", "a", " ", "T", "y", "p", "e">>]
    ELSE [statusCode |-> 415,
          headers |-> [h \in {<<"C", "o", "n", "t", "e", "n", "t", "-", "T", "y", "p", "e">>} |->
                         opts[Len(opts)].contentType],
          body |-> opts[Len(opts)].body]

\* C4: a rejection by AllowContentType returns status 415 with the
\* configured body and Content-Type header and a nil error, and no layer
\* below the gate runs in that invocation.
C4_RejectionResponse ==
    \A i \in 1..Len(trace) :
      (trace[i].who = "AllowContentType" /\ trace[i].ev = "reject") =>
        /\ trace[i].ret.resp = C4_Configured(MwAt(trace[i].layer).opts)
        /\ trace[i].ret.err = Nil
        /\ CallsOfNext(trace[i].layer) = 0
        /\ \A j \in 1..Len(trace) : trace[j].layer <= trace[i].layer

\* C4 witness: the second of two gates has rejected a media type the first
\* allowed, with its configured response, which the caller received
C4_Witness ==
    /\ pc = "done"
    /\ Len(handler) = 3
    /\ Len(trace) = 3
    /\ trace[2].ev = "reject"
    /\ MwAt(2).opts # <<>>
    /\ MwAt(1).opts = <<>>
    /\ ContentTypeOf(inbound.req) = TextXml
    /\ ret.resp.body = OnlyJsonBody
\* C14: an AllowContentType built with an empty allow-list rejects every
\* request with status 415 and never calls next, whether the request's
\* content-type header is present, absent, valid or invalid.
C14_EmptyAllowListRejectsAll ==
    \A i \in 1..Len(trace) :
      (trace[i].who = "AllowContentType"
         /\ MwAt(trace[i].layer).config.allowedTypes = <<>>) =>
        /\ trace[i].ev = "reject"
        /\ trace[i].ret.resp.statusCode = 415
        /\ trace[i].ret.err = Nil
        /\ CallsOfNext(trace[i].layer) = 0
        /\ \A j \in 1..Len(trace) : trace[j].layer <= trace[i].layer

\* C14 witness: behind a gate that allows application/json, a gate with an
\* empty allow-list has rejected an application/json request with 415
C14_Witness ==
    /\ pc = "done"
    /\ Len(declared[composedOf]) = 2
    /\ MwAt(1).config.allowedTypes = <<AppJson>>
    /\ MwAt(2).config.allowedTypes = <<>>
    /\ ContentTypeOf(inbound.req) = AppJson
    /\ Len(trace) = 3
    /\ trace[2].ev = "reject"
    /\ trace[2].layer = 2
    /\ ret.resp.statusCode = 415

\* the sample allow-list entries that do not parse as a media type
C15_Unparsable == {NoSubtype}

\* the bare lower-case media type of a sample allow-list entry
C15_Normalised(entry) ==
    IF entry \in {AppJson, AppJsonUpperCharset} THEN <<"a", "p", "p", "l", "i", "c", "a", "t", "i", "o", "n", "/", "j", "s", "o", "n">>
    ELSE IF entry = AppXml THEN <<"a", "p", "p", "l", "i", "c", "a", "t", "i", "o", "n", "/", "x", "m", "l">>
    ELSE IF entry = TextXml THEN <<"t", "e", "x", "t", "/", "x", "m", "l">>
    ELSE entry

\* the allow-set of a list of entries: the normalised entries that parse
C15_AllowSet(allowedTypes) ==
    {C15_Normalised(e) : e \in Range(allowedTypes) \ C15_Unparsable}

----------------------------------------------------------------------------
(* Claims about StructuredLogger, checked under SpecLogger.                *)

\* the kinds of the events of a layer, in the order they happened
EventsOf(layer) ==
    LET own == SelectSeq([i \in 1..Len(trace) |-> trace[i]],
                         LAMBDA e : e.layer = layer)
    IN  [i \in 1..Len(own) |-> own[i].ev]

\* the records a layer had logged before position i of the history
LoggedBefore(layer, i) ==
    {k \in 1..(i - 1) : trace[k].layer = layer /\ trace[k].ev = "log"}

\* C7: every invocation of a StructuredLogger-wrapped handler emits exactly
\* two log records, whether next succeeds or fails: the first before next
\* is invoked, the second after next has returned and before the wrapper
\* returns.
C7_TwoRecords ==
    composedOf # 0 =>
      \A layer \in 1..Len(declared[composedOf]) :
        MwAt(layer).kind = "logger" =>
          LET own == EventsOf(layer)
              full == <<"log", "pre", "log", "post">>
          IN  /\ Len(own) <= 4
              /\ own = SubSeq(full, 1, Len(own))
              /\ pc = "done" => own = full
              /\ \A i \in 1..Len(trace) :
                   trace[i].layer > layer =>
                     Cardinality(LoggedBefore(layer, i)) = 1
              /\ \A i \in 1..Len(trace) :
                   (trace[i].layer = layer /\ trace[i].ev = "post") =>
                     /\ Cardinality(LoggedBefore(layer, i)) = 2
                     /\ trace[i - 1].ev = "log"
                     /\ trace[i - 1].layer = layer
                     /\ ReturnsBefore(layer + 1, i - 1) # {}

\* C7 witness: two loggers wrap a terminal handler that failed; each has
\* logged twice, the second record reporting the failure, and the
\* invocation is over
C7_Witness ==
    /\ pc = "done"
    /\ Len(declared[composedOf]) = 2
    /\ ret.err # Nil
    /\ Len(trace) = 9
    /\ trace[8].ev = "log"
    /\ trace[8].layer = 1
    /\ trace[8].rec.level = "ERROR"
    /\ trace[1].rec.msg = "request received"
    /\ Cardinality({i \in 1..Len(trace) : trace[i].ev = "log"}) = 4

\* C8: StructuredLogger calls next exactly once, with the context and the
\* request it was called with (the body as it came, also when request-body
\* logging is off), and returns the response (body as next returned it) and
\* the error next returned, on success and on failure.
C8_PureWrapper ==
    /\ \A i \in 1..Len(trace) :
         trace[i].who = "StructuredLogger" =>
           LET e == trace[i]
               in == CalledWith(e.layer)
           IN  /\ e.ev \in {"log", "pre", "post"}
               /\ CallsOfNext(e.layer) <= 1
               /\ e.ev = "pre" => e.ctx = in.ctx /\ e.req = in.req
               /\ e.ev = "post" =>
                    HandsOnResult(i) /\ CallsOfNext(e.layer) = 1
    /\ \A i \in 1..Len(trace) :
         trace[i].ev = "h" =>
           /\ trace[i].ctx = inbound.ctx
           /\ trace[i].req = inbound.req
           /\ pc = "done" => ret = trace[i].ret

\* C8 witness: a logger with body logging off has logged "(omitted)" for
\* the request's body and for the response's, the terminal handler has
\* received the body and the caller has received the response's
C8_Witness ==
    /\ pc = "done"
    /\ Len(declared[composedOf]) = 1
    /\ MwAt(1).config.isRequestBodyLoggingEnable = FALSE
    /\ MwAt(1).config.isResponseBodyLoggingEnable = FALSE
    /\ Len(trace) = 5
    /\ trace[1].rec.attrs[1].value.body = Omitted
    /\ trace[3].req.body = World
    /\ trace[4].rec.attrs[1].value.body = Omitted
    /\ ret.resp.body = <<"O", "K">>
    /\ ret.err = Nil
\* the attributes of a record that have the key key
C20_AttrsOf(rec, key) ==
    {k \in 1..Len(rec.attrs) : rec.attrs[k].key = key}

\* C20: the first log record of an invocation is at informational level
\* with the message "request received"; the second is at error level with
\* the message "request processing failed" and carries the error if and only
\* if next returned a non-nil error, and is otherwise at informational level
\* with the message "request processed successfully" and carries no error
\* attribute; the second record always carries a duration.
C20_LevelsAndMessages ==
    \A i \in 1..Len(trace) :
      trace[i].ev = "log" =>
        LET rec == trace[i].rec
            layer == trace[i].layer
            below == ReturnsBefore(layer + 1, i)
        IN  IF LoggedBefore(layer, i) = {}
            THEN /\ rec.level = "INFO"
                 /\ rec.msg = "request received"
                 /\ below = {}
            ELSE LET k == CHOOSE k \in below : \A j \in below : j <= k
                     err == trace[k].ret.err
                 IN  /\ below # {}
                     /\ Cardinality(C20_AttrsOf(rec, "duration")) = 1
                     /\ err # Nil =>
                          /\ rec.level = "ERROR"
                          /\ rec.msg = "request processing failed"
                          /\ \E a \in C20_AttrsOf(rec, "error") :
                               rec.attrs[a].value = err
                     /\ err = Nil =>
                          /\ rec.level = "INFO"
                          /\ rec.msg = "request processed successfully"
                          /\ C20_AttrsOf(rec, "error") = {}
                     /\ rec.level = "ERROR" <=> err # Nil

\* C20 witness: a logger around a terminal handler that failed has logged
\* "request received" at INFO and then "request processing failed" at ERROR
\* with the handler's error and a duration
C20_Witness ==
    /\ pc = "done"
    /\ Len(declared[composedOf]) = 1
    /\ Len(trace) = 5
    /\ trace[1].ev = "log"
    /\ trace[1].rec.level = "INFO"
    /\ trace[1].rec.msg = "request received"
    /\ trace[3].ev = "h"
    /\ trace[3].ret.err = "handler failed"
    /\ trace[4].ev = "log"
    /\ trace[4].rec.level = "ERROR"
    /\ trace[4].rec.msg = "request processing failed"
    /\ \E a \in C20_AttrsOf(trace[4].rec, "error") :
         trace[4].rec.attrs[a].value = "handler failed"
    /\ C20_AttrsOf(trace[4].rec, "duration") # {}

\* whether the toggle an option named name sets is enabled by opts: what the
\* last such option says, disabled without one
C21_Enabled(opts, name) ==
    LET at == {k \in 1..Len(opts) : opts[k].option = name}
    IN  /\ at # {}
        /\ opts[CHOOSE k \in at : \A j \in at : j <= k].enable

\* the value of the one attribute of a record that has the key key
C21_AttrValue(rec, key) ==
    rec.attrs[CHOOSE k \in 1..Len(rec.attrs) : rec.attrs[k].key = key].value

\* the body a record shows for an original body
C21_Shown(enabled, body) == IF enabled THEN body ELSE Omitted

\* C21: the request record shows the body as "(omitted)" unless request-body
\* logging is enabled and the response record unless response-body logging
\* is enabled, the two toggles being independent and disabled by default;
\* bodySize is always the length of the original body.
C21_BodiesRedacted ==
    \A i \in 1..Len(trace) :
      trace[i].ev = "log" =>
        LET rec == trace[i].rec
            layer == trace[i].layer
            opts == MwAt(layer).opts
            below == ReturnsBefore(layer + 1, i)
        IN  IF LoggedBefore(layer, i) = {}
            THEN LET request == CalledWith(layer).req
                 IN  /\ C21_AttrValue(rec, "request")
                          = [request EXCEPT !.body =
                               C21_Shown(C21_Enabled(opts,
                                   "WithRequestBodyLogging"), request.body)]
                     /\ C21_AttrValue(rec, "bodySize") = Len(request.body)
            ELSE LET k == CHOOSE k \in below : \A j \in below : j <= k
                     response == trace[k].ret.resp
                 IN  /\ C21_AttrValue(rec, "response")
                          = [response EXCEPT !.body =
                               C21_Shown(C21_Enabled(opts,
                                   "WithResponseBodyLogging"), response.body)]
                     /\ C21_AttrValue(rec, "bodySize") = Len(response.body)

\* C21 witness: a logger with only response-body logging enabled has logged
\* the request "World" as "(omitted)" with bodySize 5 and the response "OK"
\* as it is with bodySize 2
C21_Witness ==
    /\ pc = "done"
    /\ Len(declared[composedOf]) = 1
    /\ MwAt(1).config.isResponseBodyLoggingEnable
    /\ ~MwAt(1).config.isRequestBodyLoggingEnable
    /\ inbound.req.body = World
    /\ Len(trace) = 5
    /\ trace[1].ev = "log"
    /\ C21_AttrValue(trace[1].rec, "request").body = Omitted
    /\ C21_AttrValue(trace[1].rec, "bodySize") = 5
    /\ trace[4].ev = "log"
    /\ C21_AttrValue(trace[4].rec, "response").body = <<"O", "K">>
    /\ C21_AttrValue(trace[4].rec, "bodySize") = 2

----------------------------------------------------------------------------
(* Claims about Validate, checked under SpecValidate.                      *)

\* the keys bound in the contexts of these invocations
SampleKeys == {CallerKey, CtxKey, validateCtxKey, TestCtxKey("user")}

\* the key a Validate built with options opts publishes under: that of its
\* last WithCtxKey, the package's CtxKey{} without one
C5_Key(opts) ==
    LET given == {k \in 1..Len(opts) : opts[k].option = "validate.WithCtxKey"}
    IN  IF given = {} THEN Named("validate.CtxKey", "")
        ELSE opts[CHOOSE k \in given : \A j \in given : j <= k].ctxKey

\* the values the test types hold after a successful decoding and validation
\* of the sample bodies: the user the valid bodies describe, the user a
\* custom UnmarshalRequest sets, and the mark a custom Validate leaves
C5_Expected(T) ==
    IF T = "TestUser"
    THEN [Name |-> <<"A", "l">>, Email |-> <<"a", "@", "b", ".", "c">>, Age |-> 30]
    ELSE IF T = "TestUserWithValidator"
    THEN [Name |-> <<"A", "l">>, Email |-> <<"a", "@", "b", ".", "c">>, Age |-> 30,
          IsValidated |-> TRUE, ShouldFail |-> FALSE]
    ELSE IF T = "TestUserWithUnmarshaler"
    THEN [Name |-> <<"J", "o", "h", "n", " ", "C", "u", "s", "t", "o", "m">>, Email |-> <<"j", "o", "h", "n", ".", "c", "u", "s", "t", "o", "m", "@", "e", "x", "a", "m", "p", "l", "e", ".", "c", "o", "m">>,
          Age |-> 35, FromJSON |-> FALSE]
    ELSE [Name |-> <<"C", "u", "s", "t", "o", "m", " ", "N", "a", "m", "e">>, Email |-> <<"c", "u", "s", "t", "o", "m", "@", "e", "x", "a", "m", "p", "l", "e", ".", "c", "o", "m">>,
          Age |-> 42, FromJSON |-> FALSE, IsValidated |-> TRUE]

\* the value a request's body represents for T: the body's document, after
\* base64 decoding where flagged, read by the codec of its format
C5_Represented(T, request) ==
    LET body == IF request.isBase64Encoded
                THEN DecodeString(request.body).bytes
                ELSE request.body
    IN  unmarshalAs(determineContentType(body), T, body).data

\* the call of next at position i of the history is Validate's only one,
\* passes the request unchanged and a context derived from the one Validate
\* was called with, in which the configured key is bound to a T holding
\* data and every other key is bound as before
C5_CallsNextBinding(i, data) ==
    LET e == trace[i]
        mw == MwAt(e.layer)
        in == CalledWith(e.layer)
        key == C5_Key(mw.opts)
    IN  /\ CallsOfNext(e.layer) = 1
        /\ e.req = in.req
        /\ e.ctx # in.ctx
        /\ ctxs[e.ctx].parent = in.ctx
        /\ Value(ctxs, e.ctx, key) = Typed(mw.type, data)
        /\ \A k \in SampleKeys \ {key} :
             Value(ctxs, e.ctx, k) = Value(ctxs, in.ctx, k)

\* C5 as the specification states it: when Validate[T] decodes and validates
\* the body it calls next once with a derived context binding the
\* configured key to the decoded T, passes the request unchanged, returns
\* next's result unchanged, and the bound value equals the value the request
\* body represents.
C5_BoundValueIsBodyValue ==
    \A i \in 1..Len(trace) :
      trace[i].who = "Validate" =>
        /\ trace[i].ev = "pre" =>
             C5_CallsNextBinding(
                 i, C5_Represented(MwAt(trace[i].layer).type,
                                   CalledWith(trace[i].layer).req))
        /\ trace[i].ev = "post" => HandsOnResult(i)

\* C5: when Validate[T] decodes and validates the body it calls next once
\* with a context derived from the inbound one that binds the configured key
\* (CtxKey{} or the key of WithCtxKey) to the value of type T that T's
\* decoder made of the body and T's validation left, passes the request
\* unchanged and returns next's response and error unchanged; for a T read
\* by the JSON or XML codec and validated by its struct tags that value is
\* the one the body represents.
C5_BindsDecodedValue ==
    \A i \in 1..Len(trace) :
      trace[i].who = "Validate" =>
        LET T == MwAt(trace[i].layer).type
        IN  /\ trace[i].ev = "pre" =>
                 /\ C5_CallsNextBinding(i, C5_Expected(T))
                 /\ T = "TestUser" =>
                      C5_Expected(T) =
                        C5_Represented(T, CalledWith(trace[i].layer).req)
            /\ trace[i].ev = "post" =>
                 HandsOnResult(i) /\ CallsOfNext(trace[i].layer) = 1

\* C5 witness: Validate[TestUserWithValidator], given a key, has decoded a
\* base64-encoded JSON body and bound the user, marked by its Validate, for
\* a Validate[TestUser] behind it that bound the same user under the
\* package's key; the terminal handler has run with both
C5_Witness ==
    /\ pc = "done"
    /\ Len(declared[composedOf]) = 2
    /\ MwAt(1).type = "TestUserWithValidator"
    /\ MwAt(1).opts # <<>>
    /\ MwAt(2).type = "TestUser"
    /\ MwAt(2).opts = <<>>
    /\ inbound.ctx = 2
    /\ inbound.req.isBase64Encoded
    /\ Len(trace) = 5
    /\ trace[3].ev = "h"
    /\ Value(ctxs, trace[3].ctx, TestCtxKey("user")).v.IsValidated
    /\ Value(ctxs, trace[3].ctx, validateCtxKey).v.Name = <<"A", "l">>
    /\ Value(ctxs, trace[3].ctx, CallerKey) = StringValue("trace-1")
    /\ trace[5].ev = "post"

\* the error response a Validate built with options opts is configured to
\* return
C6_Configured(opts) ==
    LET given == {k \in 1..Len(opts) :
                    opts[k].option = "validate.WithResponse"}
        last == CHOOSE k \in given : \A j \in given : j <= k
    IN  [statusCode |-> 400,
         headers |-> [h \in {<<"C", "o", "n", "t", "e", "n", "t", "-", "T", "y", "p", "e">>} |->
                        IF given = {} THEN <<"t", "e", "x", "t", "/", "p", "l", "a", "i", "n", ";", " ", "c", "h", "a", "r", "s", "e", "t", "=", "u", "t", "f", "-", "8">>
                        ELSE opts[last].contentType],
         body |-> IF given = {} THEN <<"B", "a", "d", " ", "R", "e", "q", "u", "e", "s", "t", ":", " ", "V", "a", "l", "i", "d", "a", "t", "i", "o", "n", " ", "F", "a", "i", "l", "e", "d">>
                  ELSE opts[last].body]

\* C6: on every rejection path of Validate[T] (empty body, base64 decoding
\* failure, decode failure, custom or struct-tag validation failure) it
\* returns status 400 with the configured body and Content-Type header, a
\* nil error, and never calls next; a sample request of each of these paths
\* is not let through.
C6_RejectionResponse ==
    /\ \A i \in 1..Len(trace) :
         (trace[i].who = "Validate" /\ trace[i].ev = "reject") =>
           /\ trace[i].ret.resp = C6_Configured(MwAt(trace[i].layer).opts)
           /\ trace[i].ret.err = Nil
           /\ CallsOfNext(trace[i].layer) = 0
           /\ \A j \in 1..Len(trace) : trace[j].layer <= trace[i].layer
    /\ \A i \in 1..Len(trace) :
         (trace[i].who = "Validate" /\ trace[i].ev = "pre") =>
           LET T == MwAt(trace[i].layer).type
               req == CalledWith(trace[i].layer).req
           IN  /\ req.body # <<>>
               /\ req.isBase64Encoded => req.body # NotBase64
               /\ T = "TestUser" =>
                    req.body \notin {TrailingCommaJson, InvalidXml,
                                     InvalidUserJson}
               /\ T = "TestUserWithValidator" => req.body # ShouldFailJson

\* C6 witness: behind a Validate whose type reads any body, a Validate given
\* a response has rejected a user its struct tags do not admit with that
\* response, which the caller received
C6_Witness ==
    /\ pc = "done"
    /\ Len(declared[composedOf]) = 2
    /\ MwAt(1).type = "TestUserWithUnmarshaler"
    /\ MwAt(2).type = "TestUser"
    /\ MwAt(2).opts # <<>>
    /\ inbound.req.body = InvalidUserJson
    /\ Len(trace) = 3
    /\ trace[2].ev = "reject"
    /\ ret.resp.statusCode = 400
    /\ ret.resp.body = CustomErrorBody
    /\ ret.err = Nil
----------------------------------------------------------------------------
(* Claims about chains of the provided middlewares, checked under SpecMw.  *)

\* the runs of the terminal handler in the history
TerminalRuns == {i \in 1..Len(trace) : trace[i].ev = "h"}

\* position i of the history is a failure: a rejection, or a return of an
\* error
IsFailure(i) ==
    \/ trace[i].ev = "reject"
    \/ trace[i].ev \in {"h", "post"} /\ trace[i].ret.err # Nil

\* C2: in a chain of the provided middlewares, in any order, around a
\* terminal handler, one inbound invocation runs the terminal handler at
\* most once, and not at all when a gate or a Validate of the chain rejects
\* the request; no middleware calls next again after a failure.
C2_AtMostOnce ==
    /\ Cardinality(TerminalRuns) <= 1
    /\ \A i \in 1..Len(trace) :
         (trace[i].ev = "reject"
            /\ trace[i].who \in {"AllowContentType", "Validate"}) =>
           TerminalRuns = {}
    /\ composedOf # 0 =>
         \A layer \in 1..Len(declared[composedOf]) : CallsOfNext(layer) <= 1
    /\ \A i, j \in 1..Len(trace) :
         (i < j /\ IsFailure(i)) => trace[j].ev \notin {"pre", "h"}

\* C2 witness: behind a logger and a RequestID, a Validate has rejected the
\* request; the logger has logged the response, the invocation is over and
\* the terminal handler has not run
C2_Witness ==
    /\ pc = "done"
    /\ Len(declared[composedOf]) = 3
    /\ MwAt(1).kind = "logger"
    /\ MwAt(2).kind = "requestid"
    /\ MwAt(3).kind = "validate"
    /\ \E i \in 1..Len(trace) :
         trace[i].ev = "reject" /\ trace[i].layer = 3
    /\ TerminalRuns = {}
    /\ ret.resp.statusCode = 400
    /\ trace[Len(trace)].ev = "post"

\* the key of a middleware that publishes nothing
NoKey == Named("none", "")

\* the key a middleware publishes a value under
PublishedKey(mw) ==
    IF mw.kind = "validate" THEN C5_Key(mw.opts)
    ELSE IF mw.kind \in {"requestid", "extendedrequestid"}
    THEN IF mw.opts = <<>> THEN Named("requestid.CtxKey", "")
         ELSE mw.opts[Len(mw.opts)].ctxKey
    ELSE NoKey

\* no middleware declared before a layer publishes under key
NotPublishedBefore(layer, key) ==
    \A l \in 1..(layer - 1) : PublishedKey(MwAt(l)) # key

----------------------------------------------------------------------------
(* Claims about Use, checked under SpecUse.                                *)

\* NewChain(ms...).HandlerFunc(h), composed on an empty heap
ChainHandlerFunc(ms, h) ==
    HandlerFunc(NewChain(<<>>, ms).arrays, NewChain(<<>>, ms).chain, h)

\* C11: for every terminal handler h and middleware list ms, Use(h, ms...)
\* is the handler NewChain(ms...).HandlerFunc(h): an invocation of it makes
\* the same calls in the same order and returns the response and error the
\* terminal handler returned, for every request.
C11_UseIsChainHandlerFunc ==
    composedOf # 0 =>
      LET ms == declared[composedOf]
      IN  /\ \E h \in {FinalHandler, NilHandler} :
               handler = ChainHandlerFunc(ms, h)
          /\ Middlewares(arrays, chains[composedOf]) = ms
          /\ pc = "done" =>
               /\ ObservedOrder = ExpectedOrder(ms)
               /\ \A i \in 1..Len(trace) :
                    trace[i].ev = "h" =>
                      /\ trace[i].ctx = inbound.ctx
                      /\ trace[i].req = inbound.req
                      /\ trace[i].ret = ret

\* C11 witness: Use(final, mw(m1), mw(m2)) has been invoked with a request
\* and has returned the response of final after m1_pre, m2_pre, handler,
\* m2_post, m1_post
C11_Witness ==
    /\ pc = "done"
    /\ declared[composedOf] = <<TagMiddleware("m1"), TagMiddleware("m2")>>
    /\ handler[3].kind = "final"
    /\ inbound.req.body = <<"o", "k">>
    /\ Len(trace) = 5
    /\ trace[1].who = "m1"
    /\ trace[5].who = "m1"
    /\ ret.err = Nil
    /\ ret.resp.statusCode = StatusOK
----------------------------------------------------------------------------
(* Claims about the header name, checked under SpecHeaderName.             *)

\* the value of the header called name, whatever the letter case it is
\* written in; empty when there is none
HeaderAnyCase(headers, name) ==
    LET ks == {k \in DOMAIN headers : ToLower(k) = ToLower(name)}
    IN  IF ks = {} THEN <<>> ELSE headers[CHOOSE k \in ks : TRUE]

\* a content-type value is allowed by a gate: it is not empty, parses, and
\* its media type is that of an entry of the allow-list
C13_AllowedValue(mw, v) ==
    LET p == ParseMediaType(ToLower(v))
    IN  /\ v # <<>>
        /\ p.err = Nil
        /\ \E k \in 1..Len(mw.config.allowedTypes) :
             LET a == ParseMediaType(ToLower(mw.config.allowedTypes[k]))
             IN  a.err = Nil /\ a.mediatype = p.mediatype

\* C13: the gate finds the request's content-type header whatever the
\* letter case of the header name: a request carrying an allowed media type
\* under "content-type" or "CONTENT-TYPE" is accepted exactly as it is under
\* "Content-Type".
C13_HeaderNameAnyCase ==
    \A i \in 1..Len(trace) :
      (trace[i].who = "AllowContentType"
         /\ trace[i].ev \in {"pre", "reject"}) =>
        LET mw == MwAt(trace[i].layer)
            in == CalledWith(trace[i].layer)
            v == HeaderAnyCase(in.req.headers, <<"C", "o", "n", "t", "e", "n", "t", "-", "T", "y", "p", "e">>)
        IN  (trace[i].ev = "pre") <=> C13_AllowedValue(mw, v)
----------------------------------------------------------------------------
(* Claims about RequestID and ExtendedRequestID, checked under             *)
(* SpecRequestID.                                                          *)

\* the keys bound in the contexts of these invocations
IdKeys == {CallerKey, CtxKey, CustomCtxKey, FirstCtxKey, SecondCtxKey}

\* the key an identifier middleware built with options opts binds: that of
\* its last WithCtxKey, CtxKey{} without one
C16_Key(opts) ==
    IF opts = <<>> THEN CtxKey ELSE opts[Len(opts)].ctxKey

\* the identifier a middleware reads from the request
C16_Identifier(who, request) ==
    IF who = "RequestID" THEN request.requestID
    ELSE request.extendedRequestID

\* C16: RequestID (ExtendedRequestID) never rejects: it calls next exactly
\* once with a context in which the configured key is bound to the
\* request's RequestContext.RequestID (ExtendedRequestID), the empty string
\* when the identifier is absent, passes the request unmodified and returns
\* next's response and error unchanged.
C16_BindsIdentifier ==
    \A i \in 1..Len(trace) :
      trace[i].who \in {"RequestID", "ExtendedRequestID"} =>
        LET e == trace[i]
            in == CalledWith(e.layer)
        IN  /\ e.ev \in {"pre", "post"}
            /\ CallsOfNext(e.layer) = 1
            /\ e.ev = "pre" =>
                 /\ e.req = in.req
                 /\ e.ctx # in.ctx
                 /\ ctxs[e.ctx].parent = in.ctx
                 /\ Value(ctxs, e.ctx, C16_Key(MwAt(e.layer).opts))
                      = StringValue(C16_Identifier(e.who, in.req))
            /\ e.ev = "post" => HandsOnResult(i)

\* C16 witness: a request without a request ID but with an extended one has
\* passed RequestID and ExtendedRequestID(WithCtxKey(customKey)); the
\* terminal handler saw "" under CtxKey{} and the extended identifier under
\* the custom key, and its result came back
C16_Witness ==
    /\ pc = "done"
    /\ Len(declared[composedOf]) = 2
    /\ MwAt(1) = RequestID(<<>>)
    /\ MwAt(2) = ExtendedRequestID(<<WithCtxKey(CustomCtxKey)>>)
    /\ inbound.ctx = Background
    /\ inbound.req.requestID = ""
    /\ Len(trace) = 5
    /\ trace[3].ev = "h"
    /\ Value(ctxs, trace[3].ctx, CtxKey) = StringValue("")
    /\ Value(ctxs, trace[3].ctx, CustomCtxKey)
         = StringValue("test-extended-request-id-456")
    /\ trace[5].ret = trace[3].ret

\* C17: an identifier middleware built with WithCtxKey(k) binds under k
\* only: in the context passed to next, CtxKey{} has the binding of the
\* inbound context, which is nil when the inbound context had none.
C17_DefaultKeyUntouched ==
    \A i \in 1..Len(trace) :
      ( /\ trace[i].who \in {"RequestID", "ExtendedRequestID"}
        /\ trace[i].ev = "pre"
        /\ MwAt(trace[i].layer).opts # <<>> ) =>
        LET e == trace[i]
            in == CalledWith(e.layer)
            k == C16_Key(MwAt(e.layer).opts)
        IN  /\ k # CtxKey
            /\ Value(ctxs, e.ctx, k) = StringValue(C16_Identifier(e.who, in.req))
            /\ Value(ctxs, e.ctx, CtxKey) = Value(ctxs, in.ctx, CtxKey)
            /\ Value(ctxs, in.ctx, CtxKey) = NilValue
                 => Value(ctxs, e.ctx, CtxKey) = NilValue

\* C17 witness: RequestID(WithCtxKey(customKey)) ran on a context without
\* bindings; the terminal handler found the identifier under the custom key
\* and nil under CtxKey{}
C17_Witness ==
    /\ pc = "done"
    /\ Len(declared[composedOf]) = 1
    /\ MwAt(1) = RequestID(<<WithCtxKey(CustomCtxKey)>>)
    /\ inbound.ctx = Background
    /\ inbound.req.requestID = "test-request-id-123"
    /\ Len(trace) = 3
    /\ trace[2].ev = "h"
    /\ Value(ctxs, trace[2].ctx, CustomCtxKey)
         = StringValue("test-request-id-123")
    /\ Value(ctxs, trace[2].ctx, CtxKey) = NilValue

\* the handler is RequestID and ExtendedRequestID, in either order, around
\* the terminal handler
C29_BothIdentifiers ==
    /\ composedOf # 0
    /\ Len(declared[composedOf]) = 2
    /\ {MwAt(1).tag, MwAt(2).tag} = {"RequestID", "ExtendedRequestID"}

\* C29: RequestID and ExtendedRequestID in one chain with default options
\* bind the same key CtxKey{}: the handlers behind both find the identifier
\* of the inner one there, and the identifier of the outer one under no
\* key; both identifiers are found only when the two have distinct keys,
\* each under the key of its middleware.
C29_DefaultKeysCollide ==
    C29_BothIdentifiers =>
      \A i \in 1..Len(trace) :
        trace[i].ev = "h" =>
          LET ctx == trace[i].ctx
              outerKey == C16_Key(MwAt(1).opts)
              innerKey == C16_Key(MwAt(2).opts)
              outerID == C16_Identifier(MwAt(1).tag, inbound.req)
              innerID == C16_Identifier(MwAt(2).tag, inbound.req)
          IN  /\ (MwAt(1).opts = <<>> /\ MwAt(2).opts = <<>>)
                   => outerKey = innerKey /\ innerKey = CtxKey
              /\ Value(ctxs, ctx, innerKey) = StringValue(innerID)
              /\ outerKey # innerKey
                   => Value(ctxs, ctx, outerKey) = StringValue(outerID)
              /\ (outerKey = innerKey /\ outerID # innerID)
                   => \A k \in IdKeys :
                        Value(ctxs, ctx, k) # StringValue(outerID)

\* C29 witness: behind RequestID() and ExtendedRequestID() the terminal
\* handler found the extended identifier under CtxKey{} and the request ID
\* under no key
C29_Witness ==
    /\ pc = "done"
    /\ C29_BothIdentifiers
    /\ MwAt(1) = RequestID(<<>>)
    /\ MwAt(2) = ExtendedRequestID(<<>>)
    /\ inbound.req.requestID = "test-request-id-123"
    /\ inbound.req.extendedRequestID = "test-extended-request-id-456"
    /\ Len(trace) = 5
    /\ trace[3].ev = "h"
    /\ Value(ctxs, trace[3].ctx, CtxKey)
         = StringValue("test-extended-request-id-456")
    /\ \A k \in IdKeys :
         Value(ctxs, trace[3].ctx, k) # StringValue("test-request-id-123")
----------------------------------------------------------------------------
(* Claims about the options of the middlewares, checked under SpecOptions. *)

\* the positions of the options named name in opts
C18_Positions(opts, name) == {i \in 1..Len(opts) : opts[i].option = name}

\* the last option named name in opts
C18_Last(opts, name) ==
    opts[CHOOSE i \in C18_Positions(opts, name) :
           \A j \in C18_Positions(opts, name) : j <= i]

\* the content type and body of the rejection response of a middleware built
\* with opts: those of the last WithResponse, the defaults without one
C18_Response(opts, name, defaultContentType, defaultBody) ==
    IF C18_Positions(opts, name) = {}
    THEN <<defaultContentType, defaultBody>>
    ELSE <<C18_Last(opts, name).contentType, C18_Last(opts, name).body>>

\* the content type and body of a response
C18_ResponseOf(resp) == <<resp.headers[ContentTypeName], resp.body>>

\* C18: a middleware's configuration is its defaults overridden by its
\* options in the order given, the last option winning: RequestID binds the
\* identifier under the key of its last WithCtxKey and leaves the keys of
\* the earlier ones as the inbound context had them (unbound), and the gate
\* and Validate reject with the response of their last WithResponse.
C18_LastOptionWins ==
    \A i \in 1..Len(trace) :
      LET e == trace[i]
      IN  /\ (e.who = "RequestID" /\ e.ev = "pre") =>
               LET opts == MwAt(e.layer).opts
                   in == CalledWith(e.layer)
                   k == IF opts = <<>> THEN CtxKey
                        ELSE C18_Last(opts, "WithCtxKey").ctxKey
               IN  /\ Value(ctxs, e.ctx, k) = StringValue(in.req.requestID)
                   /\ \A j \in 1..Len(opts) :
                        opts[j].ctxKey # k =>
                          /\ Value(ctxs, e.ctx, opts[j].ctxKey)
                               = Value(ctxs, in.ctx, opts[j].ctxKey)
                          /\ Value(ctxs, in.ctx, opts[j].ctxKey) = NilValue
                               => Value(ctxs, e.ctx, opts[j].ctxKey) = NilValue
          /\ (e.who = "AllowContentType" /\ e.ev = "reject") =>
               C18_ResponseOf(e.ret.resp)
                 = C18_Response(MwAt(e.layer).opts, "WithResponse",
                                defaultErrorContentType, defaultErrorBody)
          /\ (e.who = "Validate" /\ e.ev = "reject") =>
               C18_ResponseOf(e.ret.resp)
                 = C18_Response(MwAt(e.layer).opts, "validate.WithResponse",
                                validateDefaultErrorContentType,
                                validateDefaultErrorBody)

\* C18 witness: RequestID(WithCtxKey(firstKey), WithCtxKey(secondKey)) bound
\* the identifier under secondKey and left firstKey unbound, and a gate
\* built with two WithResponse options rejected the text/xml request with
\* the second response
C18_Witness ==
    /\ pc = "done"
    /\ Len(declared[composedOf]) = 2
    /\ MwAt(1) = RequestID(<<WithCtxKey(FirstCtxKey),
                             WithCtxKey(SecondCtxKey)>>)
    /\ MwAt(2).opts = <<WithResponse(FirstResponse[1], FirstResponse[2]),
                        WithResponse(SecondResponse[1], SecondResponse[2])>>
    /\ inbound.ctx = Background
    /\ ContentTypeOf(inbound.req) = TextXml
    /\ Len(trace) = 3
    /\ trace[1].ev = "pre"
    /\ Value(ctxs, trace[1].ctx, SecondCtxKey) = StringValue("req-1")
    /\ Value(ctxs, trace[1].ctx, FirstCtxKey) = NilValue
    /\ trace[2].ev = "reject"
    /\ C18_ResponseOf(ret.resp) = SecondResponse
----------------------------------------------------------------------------
(* Claims about GetReqID, checked under SpecGetReqID.                      *)

\* whether middleware.RequestID is a layer of the composed handler
C19_BehindRequestID ==
    \E l \in 1..Len(declared[composedOf]) : MwAt(l) = middlewareRequestID

\* C19: in a handler behind RequestID, GetReqID(ctx) returns the identifier
\* RequestID bound, the request's RequestContext.RequestID; on a context
\* RequestID has not bound it returns the string a caller bound under the
\* key, and the empty string when the key has no binding or the bound
\* value is not a string.
C19_GetReqID ==
    \A i \in 1..Len(trace) :
      trace[i].ev = "h" =>
        LET got == trace[i].actualReqID
            bound == Value(ctxs, inbound.ctx, reqIDKey)
        IN  /\ C19_BehindRequestID => got = inbound.req.requestID
            /\ (~C19_BehindRequestID /\ bound = NilValue) => got = ""
            /\ (~C19_BehindRequestID /\ bound.type # "string") => got = ""
            /\ (~C19_BehindRequestID /\ bound.type = "string")
                 => got = bound.v.s

\* C19 witness: behind RequestID the handler read the request's identifier
\* although the caller's context held a value that is not a string
C19_Witness ==
    /\ pc = "done"
    /\ Len(declared[composedOf]) = 1
    /\ MwAt(1) = middlewareRequestID
    /\ inbound.ctx = 2
    /\ inbound.req.requestID = "test-request-id-123"
    /\ trace[2].ev = "h"
    /\ trace[2].actualReqID = "test-request-id-123"
----------------------------------------------------------------------------
(* Claims about the stages of Validate, checked under SpecBody.            *)

\* C22: Validate[T] rejects every request whose Body is the empty string
\* with the 400 error response and without calling next, whether or not the
\* request is flagged as base64 and for every type T, also one with a custom
\* UnmarshalRequest or Validate.
C22_EmptyBodyRejected ==
    \A i \in 1..Len(trace) :
      (trace[i].who = "Validate"
         /\ CalledWith(trace[i].layer).req.body = <<>>) =>
        /\ trace[i].ev = "reject"
        /\ trace[i].ret.resp = MwAt(trace[i].layer).errorResponse
        /\ trace[i].ret.resp.statusCode = 400
        /\ trace[i].ret.err = Nil
        /\ CallsOfNext(trace[i].layer) = 0
        /\ \A j \in 1..Len(trace) : trace[j].layer <= trace[i].layer

\* C22 witness: Validate[TestUserWithCustomAll], whose UnmarshalRequest and
\* Validate never fail, has rejected a request with an empty body with 400
C22_Witness ==
    /\ pc = "done"
    /\ Len(declared[composedOf]) = 1
    /\ MwAt(1).type = "TestUserWithCustomAll"
    /\ inbound.req.body = <<>>
    /\ trace = <<[ev |-> "reject", layer |-> 1, who |-> "Validate",
                  ret |-> ret]>>
    /\ ret.resp.statusCode = 400
    /\ ret.err = Nil

\* what a Validate middleware does with the payload of a flagged request
\* when the payload is sent as the body of an unflagged request
C23_Unflagged(mw, ctx, request, payload) ==
    ValidateHandler(mw, ctxs, ctx,
                    [request EXCEPT !.body = payload,
                                    !.isBase64Encoded = FALSE])

\* an outcome seen in the history is the outcome d: both call next and
\* publish the same value, or both return the same response and error
C23_SameOutcome(e, key, d) ==
    IF d.callNext
    THEN /\ e.ev \in {"pre", "post"}
         /\ e.ev = "pre" =>
              Value(ctxs, e.ctx, key) = Value(d.ctxs, d.ctx, key)
    ELSE /\ e.ev = "reject"
         /\ e.ret = [resp |-> d.resp, err |-> d.err]

\* C23: when the request is flagged IsBase64Encoded, Validate decodes the
\* body from base64 first: a body that is not valid base64 is rejected with
\* 400 without calling next, and the encoding of a payload p has the outcome
\* of an unflagged request whose body is p, accepted with the same
\* published value or rejected alike.
C23_Base64DecodedFirst ==
    \A i \in 1..Len(trace) :
      LET e == trace[i]
          in == CalledWith(e.layer)
      IN  (e.who = "Validate" /\ in.req.isBase64Encoded
             /\ in.req.body # <<>>) =>
            LET decoded == DecodeString(in.req.body)
            IN  IF decoded.err # Nil
                THEN /\ e.ev = "reject"
                     /\ e.ret.resp.statusCode = 400
                     /\ e.ret.err = Nil
                     /\ CallsOfNext(e.layer) = 0
                ELSE C23_SameOutcome(e, MwAt(e.layer).config.ctxKey,
                         C23_Unflagged(MwAt(e.layer), in.ctx, in.req,
                                       decoded.bytes))

\* C23 witness: Validate[TestUser] accepted the base64 encoding of the valid
\* JSON user and published the value it publishes for the JSON sent as it is
C23_Witness ==
    /\ pc = "done"
    /\ Len(declared[composedOf]) = 1
    /\ MwAt(1) = Validate("TestUser", <<>>)
    /\ inbound.req.isBase64Encoded
    /\ inbound.req.body = EncodeToString(ValidUserJson)
    /\ Len(trace) = 3
    /\ trace[1].ev = "pre"
    /\ Value(ctxs, trace[1].ctx, validateCtxKey)
         = Typed("TestUser",
                 jsonUnmarshal("TestUser", Zero("TestUser"),
                               ValidUserJson).data)

\* a layer of Validate that was called with a body it has to decode: the
\* body is not empty and, when flagged, is base64
C25_Decodes(request) ==
    /\ request.body # <<>>
    /\ request.isBase64Encoded => DecodeString(request.body).err = Nil

\* the bytes Validate decodes: the body, decoded from base64 when flagged
C25_Payload(request) ==
    IF request.isBase64Encoded THEN DecodeString(request.body).bytes
    ELSE request.body

----------------------------------------------------------------------------
(* Claims about the codec Validate selects, checked under SpecCodec.       *)

\* the bytes Validate decodes: the body, decoded from base64 when flagged
C24_Payload(request) ==
    IF request.isBase64Encoded THEN DecodeString(request.body).bytes
    ELSE request.body

\* the first character of a payload that is not white space, "" without one
C24_FirstCharacter(payload) ==
    LET at == {k \in 1..Len(payload) : ~IsSpace(payload[k])}
    IN  IF at = {} THEN ""
        ELSE payload[CHOOSE k \in at : \A j \in at : k <= j]

\* the result of the one codec the first character selects: XML for "<",
\* JSON for "{", "[", every other character and none
C24_Selected(T, payload) ==
    IF C24_FirstCharacter(payload) = "<"
    THEN xmlUnmarshal(T, Zero(T), payload)
    ELSE jsonUnmarshal(T, Zero(T), payload)

\* C24: for a type without UnmarshalRequest the codec is chosen from the
\* first character of the (base64-decoded) body that is not white space:
\* "{" or "[" selects JSON, "<" selects XML, any other character or a body
\* of white space a JSON attempt; a failure of the selected codec rejects
\* the request and no second codec is tried, and an accepted request
\* publishes what the selected codec decoded.
C24_CodecByFirstCharacter ==
    \A i \in 1..Len(trace) :
      LET e == trace[i]
          in == CalledWith(e.layer)
      IN  (e.who = "Validate" /\ ~HasUnmarshalRequest(MwAt(e.layer).type)) =>
            LET T == MwAt(e.layer).type
                selected == C24_Selected(T, C24_Payload(in.req))
            IN  /\ selected.err # Nil =>
                     /\ e.ev = "reject"
                     /\ CallsOfNext(e.layer) = 0
                /\ e.ev = "pre" =>
                     /\ selected.err = Nil
                     /\ Value(ctxs, e.ctx, MwAt(e.layer).config.ctxKey)
                          = Typed(T, validateData(T, selected.data).data)

\* C24 witness: Validate[TestUser] rejected a body that starts with "H" and
\* continues with an XML document the XML codec decodes: JSON was attempted
\* and XML was not
C24_Witness ==
    /\ pc = "done"
    /\ Len(declared[composedOf]) = 1
    /\ MwAt(1) = Validate("TestUser", <<>>)
    /\ inbound.req = [EmptyRequest EXCEPT
                        !.body = UnknownFormat \o ValidUserXml]
    /\ xmlUnmarshal("TestUser", Zero("TestUser"), inbound.req.body).err = Nil
    /\ trace = <<[ev |-> "reject", layer |-> 1, who |-> "Validate",
                  ret |-> ret]>>
    /\ ret.resp.statusCode = 400
----------------------------------------------------------------------------
(* Claims about the Chain and the slice it was made of, checked under      *)
(* SpecSlice.                                                              *)

\* the length of the history of one invocation of the Chain
C30_RunLength == 2 * Len(declared[1]) + 1

\* the part of the history that belongs to invocation r, counted from 0
C30_Run(r) ==
    SubSeq(ObservedOrder, r * C30_RunLength + 1,
           IF (r + 1) * C30_RunLength <= Len(trace)
           THEN (r + 1) * C30_RunLength ELSE Len(trace))

\* C30: NewChain copies the middlewares it is given: when the caller
\* replaces or reorders elements of its slice after NewChain has returned,
\* the Chain still holds the middlewares in the order of the call, in an
\* array of its own, and every handler built from it runs them in that
\* order; HandlerFunc leaves the Chain's sequence as it is, so that the
\* Chain is composed with one terminal handler after another.
C30_NewChainCopies ==
    chains # <<>> =>
      /\ chains[1].arr # CallerSlice.arr
      /\ Middlewares(arrays, chains[1]) = declared[1]
      /\ handler # <<>> =>
           SubSeq(handler, 1, Len(handler) - 1) = declared[1]
      /\ \A r \in 0..(MaxCompositions - 1) :
           C30_Run(r) = SubSeq(ExpectedOrder(declared[1]), 1,
                               Len(C30_Run(r)))

\* C30 witness: the caller has swapped the two middlewares of its slice
\* after NewChain; the Chain was composed with a terminal handler and
\* invoked, and composed with a nil handler and invoked, and both times the
\* middlewares ran in the order NewChain was given
C30_Witness ==
    /\ pc = "done"
    /\ Len(declared[1]) = 2
    /\ declared[1][1] # declared[1][2]
    /\ Middlewares(arrays, CallerSlice) = <<declared[1][2], declared[1][1]>>
    /\ Len(trace) = 10
    /\ trace[1].who = declared[1][1].tag
    /\ trace[3].who = "h"
    /\ trace[6].who = declared[1][1].tag
    /\ trace[8].who = "default"
    /\ trace[10].ev = "post"
----------------------------------------------------------------------------
(* Claims about the prepared error response, checked under SpecHeaders.    *)

\* C28: every rejection by an instance of AllowContentType or Validate
\* returns a response equal to the one prepared at construction, status,
\* headers and body, also after a caller has written the Headers of a
\* response an earlier rejection returned.
C28_PreparedResponseKept ==
    \A i \in 1..Len(trace) :
      trace[i].ev = "reject" =>
        trace[i].ret.resp = declared[composedOf][trace[i].layer].errorResponse
----------------------------------------------------------------------------
(* Concurrent invocations of one composed handler.  The Lambda runtime and *)
(* the tests call the handler value from several goroutines: each call has *)
(* its own stack of handler bodies, its own returned values and its own    *)
(* history, while the composed handler (the closures and what they         *)
(* captured) and the contexts are shared.  Here stack, ret, trace and      *)
(* inbound hold one entry for each goroutine.                              *)

Goroutines == {1, 2}

\* a user without an age
NoAgeJson == <<"{", "\"", "n", "a", "m", "e", "\"", ":", "\"", "B", "o", "\"", ",", "\"", "e", "m", "a", "i", "l", "\"", ":", "\"", "b", "@", "c", ".", "d", "\"", "}">>

ConcurrentMiddlewares ==
    { AllowContentType(<<AppJson>>, <<>>),
      RequestID(<<>>),
      StructuredLogger(<<>>),
      Validate("TestUser", <<>>) }

ConcurrentRequests ==
    { [createRequest(AppJson) EXCEPT !.body = ValidUserJson,
                                     !.requestID = "req-1"],
      [createRequest(AppJson) EXCEPT !.body = NoAgeJson,
                                     !.requestID = "req-2"],
      [createRequest(TextXml) EXCEPT !.body = InvalidUserJson,
                                     !.requestID = "req-3"] }

\* the keys whose bindings are observed
ObservedKeys == {CallerKey, CtxKey, validateCtxKey}

\* the body of handler layer mw that is on top of a goroutine's stack, run
\* up to its return or its call of next: r is what next returned to it, env
\* the goroutine's terminal outcome and clock
HandlerStep(mw, top, r, heap, env) ==
    CASE mw.kind = "gate" ->
           IF top.waiting THEN Returns(r.resp, r.err)
           ELSE AllowContentTypeHandler(mw, top.ctx, top.req)
      [] mw.kind = "requestid" ->
           IF top.waiting THEN Returns(r.resp, r.err)
           ELSE RequestIDHandler(mw, heap, top.ctx, top.req)
      [] mw.kind = "logger" ->
           IF top.waiting
           THEN StructuredLoggerReturn(mw, top.ctx, top.req, r.resp, r.err,
                                       env.duration)
           ELSE StructuredLoggerHandler(mw, top.ctx, top.req)
      [] mw.kind = "validate" ->
           IF top.waiting THEN Returns(r.resp, r.err)
           ELSE ValidateHandler(mw, heap, top.ctx, top.req)
      [] OTHER -> Returns(env.out.resp, env.out.err)

\* the history events of a handler body that ends as decided
StepEvents(mw, top, n, d) ==
    (IF "logs" \in DOMAIN d
     THEN [i \in 1..Len(d.logs) |->
             [ev |-> "log", layer |-> n, who |-> mw.tag, rec |-> d.logs[i]]]
     ELSE <<>>)
    \o
    <<IF d.callNext
      THEN [ev |-> "pre", layer |-> n, who |-> mw.tag, ctx |-> d.ctx,
            req |-> d.req]
      ELSE IF mw.kind = "final"
      THEN [ev |-> "h", layer |-> n, who |-> mw.tag, ctx |-> top.ctx,
            req |-> top.req, ret |-> [resp |-> d.resp, err |-> d.err]]
      ELSE [ev |-> IF top.waiting THEN "post" ELSE "reject", layer |-> n,
            who |-> mw.tag, ret |-> [resp |-> d.resp, err |-> d.err]]>>

\* a goroutine's stack, returned values and history, the shared contexts
\* and the shared handler after the body on top of the stack ended as
\* decided; what a body wrote to a variable its closure captured is in
\* d.captured
Decided(h, local, heap, d) ==
    LET n == Len(local.stack)
        top == local.stack[n]
    IN  [handler |-> IF "captured" \in DOMAIN d
                     THEN [h EXCEPT ![top.layer] = d.captured]
                     ELSE h,
         heap |-> IF "ctxs" \in DOMAIN d THEN d.ctxs ELSE heap,
         local |->
           [stack |-> IF d.callNext
                      THEN Append([local.stack EXCEPT ![n].waiting = TRUE],
                                  Frame(top.layer + 1, d.ctx, d.req))
                      ELSE SubSeq(local.stack, 1, n - 1),
            ret |-> IF d.callNext THEN local.ret
                    ELSE [resp |-> d.resp, err |-> d.err],
            trace |-> local.trace
                        \o StepEvents(h[top.layer], top, n, d)]]

\* one step of a goroutine
StepOf(h, local, heap, env) ==
    Decided(h, local, heap,
            HandlerStep(h[local.stack[Len(local.stack)].layer],
                        local.stack[Len(local.stack)], local.ret, heap, env))

\* the invocation run to its end with no other goroutine
RECURSIVE RunAlone(_, _)
RunAlone(s, env) ==
    IF s.local.stack = <<>> THEN s
    ELSE RunAlone(StepOf(s.handler, s.local, s.heap, env), env)

\* what an invocation shows: the event, and for a context the values it
\* binds to the observed keys
Bindings(heap, ctx) == [k \in ObservedKeys |-> Value(heap, ctx, k)]

View(e, heap) ==
    IF e.ev = "log"
    THEN [e EXCEPT !.rec.ctx = Bindings(heap, e.rec.ctx)]
    ELSE IF "ctx" \in DOMAIN e
    THEN [e EXCEPT !.ctx = Bindings(heap, e.ctx)]
    ELSE e

Observed(local, heap) ==
    [ret |-> local.ret,
     events |-> [i \in 1..Len(local.trace) |-> View(local.trace[i], heap)]]

\* the invocation of goroutine g as it starts
Started(ctx, request) ==
    [stack |-> <<Frame(1, ctx, request)>>,
     ret |-> [resp |-> EmptyResponse, err |-> Nil],
     trace |-> <<>>]

InitConcurrent ==
    /\ InitBuild
    /\ ctxs = CallerContexts
    /\ inbound = <<>>

\* what the invocation call shows when it runs on the composed handler as
\* constructed, with no other goroutine
Ran(s) == Observed(s.local, s.heap)

Alone(call) ==
    Ran(RunAlone([handler |-> handler, heap |-> ctxs,
                  local |-> Started(call.ctx, call.req)], call.env))

\* the goroutines start, each with its call
Launch(calls) ==
    /\ inbound' = [g \in Goroutines |->
                     [ctx |-> calls[g].ctx, req |-> calls[g].req,
                      env |-> calls[g].env, alone |-> Alone(calls[g])]]
    /\ stack' = [g \in Goroutines |->
                   Started(calls[g].ctx, calls[g].req).stack]
    /\ ret' = [g \in Goroutines |->
                 Started(calls[g].ctx, calls[g].req).ret]
    /\ trace' = [g \in Goroutines |->
                   Started(calls[g].ctx, calls[g].req).trace]

\* go handler(ctx1, request1); go handler(ctx2, request2): goroutine g is
\* called with the caller's context g and with its request, and has the
\* outcome of its terminal handler; next takes no time in the first and
\* the longest time in the second
Go ==
    /\ pc = "ready"
    /\ \E reqs \in [Goroutines -> ConcurrentRequests],
          outs \in [Goroutines -> FinalOutcomes] :
         Launch([g \in Goroutines |->
                   [ctx |-> g, req |-> reqs[g],
                    env |-> [out |-> outs[g],
                             duration |-> IF g = 1 THEN 0
                                          ELSE MaxDuration]]])
    /\ pc' = "running"
    /\ UNCHANGED <<built, ctxs>>

\* goroutine g has run a handler body: its own stack, returned values and
\* history, and the shared handler and contexts, are as the step left them
Stepped(g, s) ==
    /\ handler' = s.handler
    /\ ctxs' = s.heap
    /\ stack' = [stack EXCEPT ![g] = s.local.stack]
    /\ ret' = [ret EXCEPT ![g] = s.local.ret]
    /\ trace' = [trace EXCEPT ![g] = s.local.trace]

\* goroutine g runs the handler body on top of its stack
GoStep(g) ==
    /\ pc = "running"
    /\ stack[g] # <<>>
    /\ Stepped(g, StepOf(handler,
                         [stack |-> stack[g], ret |-> ret[g],
                          trace |-> trace[g]],
                         ctxs, inbound[g].env))
    /\ UNCHANGED <<arrays, chains, declared, parent, composedOf, pc, inbound>>

NextConcurrent ==
    \/ DoNewChain(ConcurrentMiddlewares, MaxNewChainLen)
    \/ DoHandlerFunc({FinalHandler})
    \/ Go
    \/ \E g \in Goroutines : GoStep(g)

SpecConcurrent == InitConcurrent /\ [][NextConcurrent]_vars

\* C27: concurrent invocations of one composed handler do not interfere:
\* under every interleaving what a goroutine's invocation has shown so far
\* (its calls of next, its returns, its log records and the values its
\* contexts bind) is the beginning of what the invocation shows when it runs
\* alone, and all of it, with the response and error, once it has returned;
\* and the composed handler stays as it was constructed
C27_Seen(g) ==
    Observed([ret |-> ret[g], trace |-> trace[g]], ctxs)

C27_AsAlone(g, seen, alone) ==
    /\ Len(seen.events) <= Len(alone.events)
    /\ seen.events = SubSeq(alone.events, 1, Len(seen.events))
    /\ stack[g] = <<>> => seen = alone

C27_NoInterference ==
    pc = "running" =>
      /\ handler = HandlerFunc(arrays, chains[composedOf], FinalHandler)
      /\ \A g \in Goroutines :
           C27_AsAlone(g, C27_Seen(g), inbound[g].alone)

\* both goroutines have returned from a handler of RequestID and Validate,
\* and the contexts they derived were created in turns
C27_Witness ==
    /\ pc = "running"
    /\ \A g \in Goroutines : stack[g] = <<>>
    /\ Len(ctxs) = Len(CallerContexts) + 4
    /\ ctxs[Len(CallerContexts) + 1].val = StringValue("req-1")
    /\ ctxs[Len(CallerContexts) + 2].val = StringValue("req-2")
    /\ ctxs[Len(CallerContexts) + 3].parent = Len(CallerContexts) + 1
    /\ ctxs[Len(CallerContexts) + 4].parent = Len(CallerContexts) + 2
    /\ ctxs[Len(CallerContexts) + 3].key = validateCtxKey
    /\ ctxs[Len(CallerContexts) + 4].key = validateCtxKey

====
